---- MODULE Spec2Model ----
(***************************************************************************)
(* Model of the natural-language command parser of dragonbricks           *)
(* (backend/app/services/parser): fuzzy matcher, lexicon, tokenizer and    *)
(* the ordered battery of recognizers of parse_command, with the          *)
(* recursive sub-parses of the repeat and multitask recognizers made      *)
(* explicit as a call stack.                                               *)
(*                                                                         *)
(* Python strings are TLA+ strings (Len, \o, SubSeq on strings are the     *)
(* character operations).  Optional[str] is modelled with "" for None      *)
(* where the code never produces an empty string.  Floats are modelled as  *)
(* exact decimals [n, d] (value n/d, d a power of ten, d = 0 for None).    *)
(***************************************************************************)
EXTENDS Integers, Sequences, FiniteSets, TLC

(***************************************************************************)
(* String primitives (Python str methods used by the parser)               *)
(***************************************************************************)
Char(s, i) == SubSeq(s, i, i)

InList(w, L) == \E i \in DOMAIN L : L[i] = w

UPPER == "ABCDEFGHIJKLMNOPQRSTUVWXYZ"
LOWER == "abcdefghijklmnopqrstuvwxyz"
DIGITS == "0123456789"

IsIn(c, alphabet) == \E i \in 1..Len(alphabet) : Char(alphabet, i) = c

PosIn(c, alphabet) == CHOOSE i \in 1..Len(alphabet) : Char(alphabet, i) = c

LowerChar(c) == IF IsIn(c, UPPER) THEN Char(LOWER, PosIn(c, UPPER)) ELSE c

UpperChar(c) == IF IsIn(c, LOWER) THEN Char(UPPER, PosIn(c, LOWER)) ELSE c

RECURSIVE str_lower(_)
str_lower(s) ==
    IF s = "" THEN "" ELSE LowerChar(Head(s)) \o str_lower(Tail(s))

RECURSIVE str_upper(_)
str_upper(s) ==
    IF s = "" THEN "" ELSE UpperChar(Head(s)) \o str_upper(Tail(s))

IsSpace(c) == c \in {" ", "\t", "\n", "\r"}

RECURSIVE str_lstrip(_)
str_lstrip(s) ==
    IF s # "" /\ IsSpace(Head(s)) THEN str_lstrip(Tail(s)) ELSE s

RECURSIVE str_rstrip(_)
str_rstrip(s) ==
    IF s # "" /\ IsSpace(Char(s, Len(s)))
    THEN str_rstrip(SubSeq(s, 1, Len(s) - 1))
    ELSE s

str_strip(s) == str_rstrip(str_lstrip(s))

str_startswith(s, p) == Len(p) <= Len(s) /\ SubSeq(s, 1, Len(p)) = p

Occurs(s, sub, i) == SubSeq(s, i, i + Len(sub) - 1) = sub

\* sub in s
str_contains(s, sub) == \E i \in 1..(Len(s) - Len(sub) + 1) : Occurs(s, sub, i)

\* s.index(sub), 1-based; only used when sub occurs in s
str_index(s, sub) ==
    CHOOSE i \in 1..(Len(s) - Len(sub) + 1) :
        /\ Occurs(s, sub, i)
        /\ \A k \in 1..(i - 1) : ~Occurs(s, sub, k)

\* s[k:] for a 0-based Python offset k
str_from(s, k) == SubSeq(s, k + 1, Len(s))

\* s.split(sep): all parts, left to right
RECURSIVE str_split(_, _)
str_split(s, sep) ==
    IF str_contains(s, sep)
    THEN LET i == str_index(s, sep)
         IN <<SubSeq(s, 1, i - 1)>> \o str_split(str_from(s, i - 1 + Len(sep)), sep)
    ELSE <<s>>

\* s.split(sep, 1)
str_split1(s, sep) ==
    IF str_contains(s, sep)
    THEN LET i == str_index(s, sep)
         IN <<SubSeq(s, 1, i - 1), str_from(s, i - 1 + Len(sep))>>
    ELSE <<s>>

\* s.replace(old, new)
RECURSIVE str_replace(_, _, _)
str_replace(s, old, new) ==
    IF str_contains(s, old)
    THEN LET i == str_index(s, old)
         IN SubSeq(s, 1, i - 1) \o new \o str_replace(str_from(s, i - 1 + Len(old)), old, new)
    ELSE s

\* s.split(): maximal runs of non-whitespace characters
RECURSIVE TakeWord(_)
TakeWord(s) ==
    IF s = "" \/ IsSpace(Head(s)) THEN "" ELSE Head(s) \o TakeWord(Tail(s))

RECURSIVE str_words(_)
str_words(s) ==
    LET t == str_lstrip(s)
    IN IF t = "" THEN <<>>
       ELSE LET w == TakeWord(t)
            IN <<w>> \o str_words(str_from(t, Len(w)))

\* str(int)
RECURSIVE NatToStr(_)
NatToStr(k) ==
    IF k < 10 THEN Char(DIGITS, k + 1)
    ELSE NatToStr(k \div 10) \o Char(DIGITS, (k % 10) + 1)

IntToStr(k) == IF k < 0 THEN "-" \o NatToStr(-k) ELSE NatToStr(k)

(***************************************************************************)
(* Floats as exact decimals                                                *)
(***************************************************************************)
NoNum == [n |-> 0, d |-> 0]

\* int(x * factor): truncation toward zero
IntOf(x, factor) ==
    IF x.n >= 0 THEN (x.n * factor) \div x.d
    ELSE -(((-x.n) * factor) \div x.d)

\* Python truthiness of a float
Truthy(x) == x.d # 0 /\ x.n # 0

RECURSIVE DigitsVal(_, _)
DigitsVal(s, acc) ==
    IF s = "" THEN acc
    ELSE DigitsVal(Tail(s), acc * 10 + (PosIn(Head(s), DIGITS) - 1))

RECURSIVE Pow10(_)
Pow10(k) == IF k = 0 THEN 1 ELSE 10 * Pow10(k - 1)

\* float(num_str) for num_str matching -?\d+(\.\d+)?
float(num_str) ==
    LET neg == str_startswith(num_str, "-")
        body == IF neg THEN Tail(num_str) ELSE num_str
        hasDot == str_contains(body, ".")
        ip == IF hasDot THEN SubSeq(body, 1, str_index(body, ".") - 1) ELSE body
        fp == IF hasDot THEN str_from(body, str_index(body, ".")) ELSE ""
        m == DigitsVal(ip \o fp, 0)
    IN [n |-> IF neg THEN -m ELSE m, d |-> Pow10(Len(fp))]

(***************************************************************************)
(* Lexicon (patterns.py)                                                   *)
(***************************************************************************)
MOVE_VERBS == <<"move", "go", "drive", "travel", "advance", "proceed">>

FORWARD_WORDS == <<"forward", "forwards", "ahead", "straight", "front">>

BACKWARD_WORDS == <<"backward", "backwards", "back", "reverse", "behind">>

TURN_VERBS == <<"turn", "rotate", "spin", "pivot", "swing">>

LEFT_WORDS == <<"left", "counterclockwise", "ccw">>

RIGHT_WORDS == <<"right", "clockwise", "cw">>

WAIT_VERBS == <<"wait", "pause", "delay", "sleep", "hold">>

RUN_VERBS == <<"run", "spin", "rotate", "move", "activate", "start">>

STOP_VERBS == <<"stop", "halt", "brake", "freeze", "end">>

SET_VERBS == <<"set", "change", "configure", "adjust", "use", "make">>

MOTOR_WORDS == <<"motor", "arm", "claw", "gripper", "lift", "attachment",
    "grabber", "lever">>

ARC_VERBS == <<"arc", "curve", "sweep", "bend">>

HOLD_WORDS == <<"hold", "lock", "maintain", "keep">>

BEEP_VERBS == <<"beep", "sound", "play", "tone", "buzz">>

DISPLAY_VERBS == <<"display", "show", "print", "write", "draw">>

LIGHT_VERBS == <<"light", "led", "illuminate", "glow">>

HUB_WORDS == <<"hub", "prime", "spike", "brick">>

ON_WORDS == <<"on", "enable", "activate">>

OFF_WORDS == <<"off", "disable", "deactivate">>

HEADING_WORDS == <<"heading", "direction", "orientation", "angle", "yaw">>

RESET_WORDS == <<"reset", "zero", "clear", "calibrate">>

REPEAT_VERBS == <<"repeat", "loop", "do">>

TIMES_WORDS == <<"times", "iterations", "loops">>

DEFINE_VERBS == <<"define", "create", "make", "build">>

MISSION_WORDS == <<"mission", "routine", "program", "task">>

CALL_VERBS == <<"call", "execute", "start", "begin", "launch">>

SENSOR_WORDS == <<"sensor", "light", "color", "distance", "ultrasonic",
    "force", "gyro">>

UNTIL_WORDS == <<"until", "till", "when">>

WHILE_WORDS == <<"while", "during", "as">>

CONDITION_WORDS == <<"sees", "detects", "reads", "measures", "is">>

COMPARISON_WORDS == <<"greater", "less", "more", "above", "below", "equals",
    "equal">>

LINE_WORDS == <<"line", "edge", "border">>

FOLLOW_VERBS == <<"follow", "track", "trace">>

PARALLEL_WORDS == <<"simultaneously", "together", "parallel", "concurrently",
    "while">>

PRECISE_WORDS == <<"precisely", "exactly", "accurate", "carefully", "gyro">>

IF_WORDS == <<"if", "when">>

THEN_WORDS == <<"then">>

ELSE_WORDS == <<"else", "otherwise">>

ANGLE_UNITS == <<"degree", "degrees", "deg">>

COLORS == <<"red", "orange", "yellow", "green", "cyan", "blue", "violet",
    "magenta", "white", "gray", "grey", "black", "none">>

SPEED_WORDS == <<"speed", "velocity", "rate", "fast", "slow", "quickly",
    "slowly">>

FILLER_WORDS == <<"for", "to", "the", "a", "an", "of", "by", "at", "in", "on",
    "and", "then">>

VERB_BLACKLIST == <<"speed", "slow", "fast", "quick", "rate">>

UNIT_CONVERSIONS_KEYS == <<"mm", "millimeter", "millimeters", "millimetre",
    "millimetres", "cm", "centimeter", "centimeters", "centimetre",
    "centimetres", "m", "meter", "meters", "metre", "metres">>

\* the table with "cm" and its spellings converted as 100 mm
UNIT_CONVERSIONS_VALUES_cm100 == <<1, 1, 1, 1, 1, 100, 100, 100, 100, 100, 1000, 1000,
    1000, 1000, 1000>>

UNIT_CONVERSIONS_VALUES == <<1, 1, 1, 1, 1, 10, 10, 10, 10, 10, 1000, 1000,
    1000, 1000, 1000>>

TIME_CONVERSIONS_KEYS == <<"ms", "millisecond", "milliseconds", "s", "sec",
    "second", "seconds", "min", "minute", "minutes">>

TIME_CONVERSIONS_VALUES == <<1, 1, 1, 1000, 1000, 1000, 1000, 60000, 60000,
    60000>>

ALL_VERBS ==
    MOVE_VERBS \o TURN_VERBS \o WAIT_VERBS \o RUN_VERBS \o STOP_VERBS
    \o SET_VERBS \o FOLLOW_VERBS \o CALL_VERBS

ALL_DIRECTIONS == FORWARD_WORDS \o BACKWARD_WORDS \o LEFT_WORDS \o RIGHT_WORDS

ALL_UNITS == UNIT_CONVERSIONS_KEYS \o TIME_CONVERSIONS_KEYS \o ANGLE_UNITS

\* dict.get(key, default) on the two conversion tables
DictGet(keys, values, key, default) ==
    IF InList(key, keys)
    THEN values[CHOOSE i \in DOMAIN keys : keys[i] = key]
    ELSE default

(***************************************************************************)
(* Fuzzy matcher (fuzzy_match.py)                                          *)
(***************************************************************************)
Min2(x, y) == IF x < y THEN x ELSE y

Min3(x, y, z) == Min2(x, Min2(y, z))

\* one pass of the inner loop: extends current_row over b[j..]
\* (the tests on grown/row evaluate the row before the next iteration, as the
\* loop does)
RECURSIVE LevRow(_, _, _, _, _)
LevRow(previous_row, current_row, c1, b, j) ==
    IF j > Len(b) THEN current_row
    ELSE LET insertions == previous_row[j + 1] + 1
             deletions == current_row[j] + 1
             substitutions == previous_row[j] + (IF c1 # Char(b, j) THEN 1 ELSE 0)
             grown == Append(current_row, Min3(insertions, deletions, substitutions))
         IN IF Len(grown) = j + 1
            THEN LevRow(previous_row, grown, c1, b, j + 1)
            ELSE grown

RECURSIVE LevRows(_, _, _, _)
LevRows(previous_row, a, b, i) ==
    IF i > Len(a) THEN previous_row
    ELSE LET row == LevRow(previous_row, <<i>>, Char(a, i), b, 1)
         IN IF Len(row) = Len(b) + 1 THEN LevRows(row, a, b, i + 1) ELSE row

levenshtein_distance(a0, b0) ==
    LET a == IF Len(a0) < Len(b0) THEN b0 ELSE a0
        b == IF Len(a0) < Len(b0) THEN a0 ELSE b0
    IN IF Len(b) = 0 THEN Len(a)
       ELSE LevRows([k \in 1..(Len(b) + 1) |-> k - 1], a, b, 1)[Len(b) + 1]

\* a cheap lower bound on the distance, used only to skip hopeless options
TooFar(a, b, max_distance) ==
    Len(a) - Len(b) > max_distance \/ Len(b) - Len(a) > max_distance

\* best is <<>> (None) or <<option, distance>>
RECURSIVE BestMatchFrom(_, _, _, _, _)
BestMatchFrom(input_lower, options, max_distance, k, best) ==
    IF k > Len(options) THEN best
    ELSE LET option == options[k]
             distance == levenshtein_distance(input_lower, str_lower(option))
         IN IF /\ ~TooFar(input_lower, option, max_distance)
               /\ distance <= max_distance
               /\ (best = <<>> \/ distance < best[2])
            THEN BestMatchFrom(input_lower, options, max_distance, k + 1,
                               <<option, distance>>)
            ELSE BestMatchFrom(input_lower, options, max_distance, k + 1, best)

find_best_match(input_str, options, max_distance) ==
    BestMatchFrom(str_lower(input_str), options, max_distance, 1, <<>>)

(***************************************************************************)
(* Tokenizer (tokenizer.py)                                                *)
(***************************************************************************)
Token(type, value, normalized) ==
    [type |-> type, value |-> value, normalized |-> normalized, numeric_value |-> NoNum]

NumberToken(num_str) ==
    [type |-> "number", value |-> num_str, normalized |-> "",
     numeric_value |-> float(num_str)]

normalize_comparison(comp) ==
    IF comp \in {"greater", "more", "above"} THEN ">"
    ELSE IF comp \in {"less", "below"} THEN "<"
    ELSE IF comp \in {"equals", "equal"} THEN "=="
    ELSE comp

normalize_direction(direction) ==
    IF InList(direction, FORWARD_WORDS) THEN "forward"
    ELSE IF InList(direction, BACKWARD_WORDS) THEN "backward"
    ELSE IF InList(direction, LEFT_WORDS) THEN "left"
    ELSE IF InList(direction, RIGHT_WORDS) THEN "right"
    ELSE direction

\* the categorical lexicons tested before the general ones, in order
CATEGORIES == <<
    <<REPEAT_VERBS, "repeat">>, <<TIMES_WORDS, "times">>,
    <<DEFINE_VERBS, "define">>, <<MISSION_WORDS, "mission">>,
    <<SENSOR_WORDS, "sensor">>, <<UNTIL_WORDS, "until">>,
    <<WHILE_WORDS, "while">>, <<CONDITION_WORDS, "condition">>,
    <<COMPARISON_WORDS, "comparison">>, <<PARALLEL_WORDS, "parallel">>,
    <<PRECISE_WORDS, "precise">>, <<IF_WORDS, "if">>, <<THEN_WORDS, "then">>,
    <<ELSE_WORDS, "else">>, <<LINE_WORDS, "line">>, <<FOLLOW_VERBS, "follow">>,
    <<CALL_VERBS, "call">>, <<ARC_VERBS, "arc">>, <<BEEP_VERBS, "beep">>,
    <<DISPLAY_VERBS, "display">>, <<RESET_WORDS, "reset">>,
    <<HOLD_WORDS, "hold">>, <<HEADING_WORDS, "heading">>, <<ON_WORDS, "on">>,
    <<OFF_WORDS, "off">>, <<HUB_WORDS, "hub">>, <<LIGHT_VERBS, "light">> >>

\* lines 196-217: the fuzzy fallback
classify_fuzzy(word) ==
    LET gate == Len(word) >= 4 /\ ~InList(word, VERB_BLACKLIST)
        verb_match == IF gate THEN find_best_match(word, ALL_VERBS, 1) ELSE <<>>
        verb_ok == verb_match # <<>> /\ Head(verb_match[1]) = Head(word)
        dir_match == IF gate /\ ~verb_ok
                     THEN find_best_match(word, ALL_DIRECTIONS, 2) ELSE <<>>
        unit_match == find_best_match(word, ALL_UNITS, 2)
        color_match == find_best_match(word, COLORS, 2)
    IN IF verb_ok THEN Token("verb", word, verb_match[1])
       ELSE IF dir_match # <<>>
       THEN Token("direction", word, normalize_direction(dir_match[1]))
       ELSE IF unit_match # <<>> THEN Token("unit", word, unit_match[1])
       ELSE IF color_match # <<>> THEN Token("color", word, color_match[1])
       ELSE Token("word", word, "")

classify_word(word) ==
    IF InList(word, FILLER_WORDS) /\ word # "and" THEN Token("word", word, "")
    ELSE IF \E k \in DOMAIN CATEGORIES : InList(word, CATEGORIES[k][1])
    THEN LET k == CHOOSE k \in DOMAIN CATEGORIES :
                      /\ InList(word, CATEGORIES[k][1])
                      /\ \A m \in 1..(k - 1) : ~InList(word, CATEGORIES[m][1])
             type == CATEGORIES[k][2]
         IN Token(type, word,
                  IF type \in {"sensor", "condition"} THEN word
                  ELSE IF type = "comparison" THEN normalize_comparison(word)
                  ELSE type)
    ELSE IF InList(word, ALL_VERBS) THEN Token("verb", word, word)
    ELSE IF InList(word, ALL_DIRECTIONS)
    THEN Token("direction", word, normalize_direction(word))
    ELSE IF InList(word, ALL_UNITS) THEN Token("unit", word, word)
    ELSE IF InList(word, COLORS)
    THEN Token("color", word, IF word = "grey" THEN "gray" ELSE word)
    ELSE IF InList(word, MOTOR_WORDS) THEN Token("motor", word, word)
    ELSE IF InList(word, SPEED_WORDS) THEN Token("speed", word, "speed")
    ELSE classify_fuzzy(word)

\* re.sub(r"[,:;!?]", " ", s)
RECURSIVE PunctToSpace(_)
PunctToSpace(s) ==
    IF s = "" THEN ""
    ELSE (IF Head(s) \in {",", ":", ";", "!", "?"} THEN " " ELSE Head(s))
         \o PunctToSpace(Tail(s))

\* length of the longest prefix of s made of characters of alphabet
RECURSIVE SpanLen(_, _)
SpanLen(s, alphabet) ==
    IF s # "" /\ IsIn(Head(s), alphabet) THEN 1 + SpanLen(Tail(s), alphabet) ELSE 0

\* re.match(r"^(-?\d+(?:\.\d+)?)([a-z]*)$", word): <<>> or <<num_str, unit_str>>
NumMatch(word) ==
    LET sign == IF str_startswith(word, "-") THEN 1 ELSE 0
        ip == SpanLen(str_from(word, sign), DIGITS)
        afterInt == str_from(word, sign + ip)
        fp == IF str_startswith(afterInt, ".") THEN SpanLen(Tail(afterInt), DIGITS) ELSE 0
        numLen == sign + ip + (IF fp > 0 THEN 1 + fp ELSE 0)
        suffix == str_from(word, numLen)
    IN IF ip > 0 /\ SpanLen(suffix, LOWER) = Len(suffix)
       THEN <<SubSeq(word, 1, numLen), suffix>>
       ELSE <<>>

word_tokens(word) ==
    LET num_match == NumMatch(word)
    IN IF num_match # <<>>
       THEN IF num_match[2] # ""
            THEN <<NumberToken(num_match[1]), classify_word(num_match[2])>>
            ELSE <<NumberToken(num_match[1])>>
       ELSE <<classify_word(word)>>

RECURSIVE words_tokens(_)
words_tokens(words) ==
    IF words = <<>> THEN <<>>
    ELSE word_tokens(Head(words)) \o words_tokens(Tail(words))

tokenize(input_str) == words_tokens(str_words(PunctToSpace(str_lower(input_str))))

(***************************************************************************)
(* Parser data (parser.py)                                                 *)
(*                                                                         *)
(* Optional values are <<>> (None) or <<v>>.  confidence is in hundredths. *)
(***************************************************************************)
None == <<>>

Some(v) == <<v>>

ClarificationRequest(field, message, type) ==
    [field |-> field, message |-> message, type |-> type]

ParseResult(success, python_code, needs_clarification, error, confidence, command_type, needs_llm) ==
    [success |-> success, python_code |-> python_code,
     needs_clarification |-> needs_clarification, error |-> error,
     confidence |-> confidence, command_type |-> command_type,
     needs_llm |-> needs_llm]

\* ParseResult(success=True, python_code=..., confidence=..., command_type=...)
Success(code, confidence, command_type) ==
    ParseResult(TRUE, Some(code), None, None, confidence, Some(command_type), FALSE)

\* a clarification request that always carries the type of the move recognizer
Clarify_distance(field, message, type) ==
    [success |-> FALSE, python_code |-> <<>>,
     needs_clarification |-> <<[field |-> field, message |-> message, type |-> "distance"]>>,
     error |-> <<>>, confidence |-> 70, command_type |-> <<>>, needs_llm |-> FALSE]

\* ParseResult(success=False, needs_clarification=..., confidence=0.7)
Clarify(field, message, type) ==
    ParseResult(FALSE, None, Some(ClarificationRequest(field, message, type)),
                None, 70, None, FALSE)

\* the fields of RobotConfig the recognizers read
RobotConfig == [speed |-> 200, turn_rate |-> 150, motor_speed |-> 200]

(***************************************************************************)
(* Helper functions                                                        *)
(***************************************************************************)
TypeIdx(tokens, token_type) == {i \in DOMAIN tokens : tokens[i].type = token_type}

SetMin(S) == CHOOSE x \in S : \A y \in S : x <= y

SetMax(S) == CHOOSE x \in S : \A y \in S : x >= y

find_token_by_type(tokens, token_type) ==
    IF TypeIdx(tokens, token_type) = {} THEN None
    ELSE Some(tokens[SetMin(TypeIdx(tokens, token_type))])

has_token_type(tokens, token_type) == TypeIdx(tokens, token_type) # {}

\* t.normalized or t.value
NormOrValue(t) == IF t.normalized # "" THEN t.normalized ELSE t.value

has_verb(tokens, verbs) ==
    \E i \in DOMAIN tokens : tokens[i].type = "verb" /\ InList(NormOrValue(tokens[i]), verbs)

IsNumber(t) == t.type = "number"

get_numbers(tokens) == SelectSeq(tokens, IsNumber)

\* tokens.index(t): position of the first token equal to t
TokenIndex(tokens, t) == SetMin({i \in DOMAIN tokens : tokens[i] = t})

\* direction and direction.normalized == d
DirIs(direction, d) == direction # None /\ direction[1].normalized = d

\* numeric_value or default
NumOr(x, default) == IF Truthy(x) THEN x ELSE [n |-> default, d |-> 1]

\* the value of the first number token at or after position from, else None
FirstNumberFrom(tokens, from) ==
    LET idx == {i \in from..Len(tokens) : tokens[i].type = "number"}
    IN IF idx = {} THEN NoNum ELSE tokens[SetMin(idx)].numeric_value

\* the same, skipping tokens equal to the token other
FirstOtherNumberFrom(tokens, from, other) ==
    LET idx == {i \in from..Len(tokens) : tokens[i].type = "number" /\ tokens[i] # other}
    IN IF idx = {} THEN NoNum ELSE tokens[SetMin(idx)].numeric_value

\* lines 202-216 and 274-286: the optional second number is a speed
SpeedValue(tokens, numbers, first_token) ==
    IF Len(numbers) >= 2 /\ has_token_type(tokens, "speed")
    THEN FirstNumberFrom(tokens, SetMin(TypeIdx(tokens, "speed")))
    ELSE IF Len(numbers) >= 2
    THEN LET at == {i \in DOMAIN tokens : tokens[i].value = "at"}
         IN IF at # {} THEN FirstOtherNumberFrom(tokens, SetMin(at), first_token[1])
            ELSE NoNum
    ELSE NoNum

(***************************************************************************)
(* Basic recognizers                                                       *)
(***************************************************************************)
try_parse_move(tokens, config) ==
    LET has_move == has_verb(tokens, MOVE_VERBS)
        direction == find_token_by_type(tokens, "direction")
        unit == find_token_by_type(tokens, "unit")
        numbers == get_numbers(tokens)
        before == IF unit = None THEN {}
                  ELSE {i \in 1..(TokenIndex(tokens, unit[1]) - 1) : tokens[i].type = "number"}
        distance_token == IF before # {} THEN Some(tokens[SetMax(before)])
                          ELSE IF numbers # <<>> THEN Some(numbers[1])
                          ELSE None
        speed_value == SpeedValue(tokens, numbers, distance_token)
        conversion == IF unit = None THEN 1
                      ELSE DictGet(UNIT_CONVERSIONS_KEYS, UNIT_CONVERSIONS_VALUES,
                                   NormOrValue(unit[1]), 1)
        magnitude == IntOf(NumOr(distance_token[1].numeric_value, 0), conversion)
        distance == IF DirIs(direction, "backward") THEN -magnitude ELSE magnitude
    IN IF ~has_move /\ direction = None THEN None
       ELSE IF direction # None /\ direction[1].normalized \notin {"forward", "backward"}
       THEN None
       ELSE IF distance_token = None
       THEN Some(Clarify("distance", "How far should the robot move?", "distance"))
       ELSE IF Truthy(speed_value)
       THEN Some(Success("robot.settings(straight_speed=" \o IntToStr(IntOf(speed_value, 1))
                         \o ")\nrobot.straight(" \o IntToStr(distance) \o ")",
                         95, "move"))
       ELSE Some(Success("robot.straight(" \o IntToStr(distance) \o ")", 95, "move"))

try_parse_turn(tokens, config) ==
    LET has_turn == has_verb(tokens, TURN_VERBS)
        direction == find_token_by_type(tokens, "direction")
        numbers == get_numbers(tokens)
        angle_token == IF numbers # <<>> THEN Some(numbers[1]) ELSE None
        speed_value == SpeedValue(tokens, numbers, angle_token)
        magnitude == IntOf(NumOr(angle_token[1].numeric_value, 0), 1)
        angle == IF DirIs(direction, "left") THEN -magnitude ELSE magnitude
    IN IF ~has_turn /\ direction = None THEN None
       ELSE IF direction # None /\ direction[1].normalized \notin {"left", "right"}
       THEN None
       ELSE IF angle_token = None
       THEN Some(Clarify("angle", "What angle should the robot turn?", "angle"))
       ELSE IF Truthy(speed_value)
       THEN Some(Success("robot.settings(turn_rate=" \o IntToStr(IntOf(speed_value, 1))
                         \o ")\nrobot.turn(" \o IntToStr(angle) \o ")",
                         95, "turn"))
       ELSE Some(Success("robot.turn(" \o IntToStr(angle) \o ")", 95, "turn"))

try_parse_wait(tokens) ==
    LET number == find_token_by_type(tokens, "number")
        unit == find_token_by_type(tokens, "unit")
        conversion == IF unit # None
                      THEN DictGet(TIME_CONVERSIONS_KEYS, TIME_CONVERSIONS_VALUES,
                                   NormOrValue(unit[1]), 1000)
                      ELSE 1000
        duration == IntOf(NumOr(number[1].numeric_value, 0), conversion)
    IN IF ~has_verb(tokens, WAIT_VERBS) THEN None
       ELSE IF number = None
       THEN Some(Clarify("duration", "How long should the robot wait?", "duration"))
       ELSE Some(Success("wait(" \o IntToStr(duration) \o ")", 90, "wait"))

try_parse_motor(tokens, config, motor_names) ==
    LET motor_token == find_token_by_type(tokens, "motor")
        motor_name == motor_token[1].value
        number == find_token_by_type(tokens, "number")
        angle == IntOf(NumOr(number[1].numeric_value, 0), 1)
    IN IF ~has_verb(tokens, RUN_VERBS) THEN None
       ELSE IF ~has_token_type(tokens, "motor") THEN None
       ELSE IF number = None
       THEN Some(Clarify("angle",
                         "How many degrees should the " \o motor_name \o " motor run?",
                         "angle"))
       ELSE Some(Success(motor_name \o ".run_angle(" \o IntToStr(config.motor_speed)
                         \o ", " \o IntToStr(angle) \o ")", 85, "motor"))

try_parse_stop(tokens, motor_names) ==
    LET motor_token == find_token_by_type(tokens, "motor")
    IN IF ~has_verb(tokens, STOP_VERBS) THEN None
       ELSE IF motor_token # None
       THEN Some(Success(motor_token[1].value \o ".stop()", 90, "stop"))
       ELSE Some(Success("robot.stop()", 85, "stop"))

try_parse_set_speed(tokens) ==
    LET has_set == has_verb(tokens, SET_VERBS)
        has_turn == has_verb(tokens, TURN_VERBS)
        has_direction == has_token_type(tokens, "direction")
        number == find_token_by_type(tokens, "number")
        speed_value == IntOf(NumOr(number[1].numeric_value, 100), 1)
        has_turn_word == \E i \in DOMAIN tokens :
                             tokens[i].value \in {"turn", "turning", "rotation"}
    IN IF ~has_token_type(tokens, "speed") THEN None
       ELSE IF has_verb(tokens, MOVE_VERBS) THEN None
       ELSE IF has_turn /\ has_direction /\ ~has_set THEN None
       ELSE IF number = None
       THEN Some(Clarify("speed", "What speed should be set? (mm/s)", "distance"))
       ELSE IF has_turn_word
       THEN Some(Success("robot.settings(turn_rate=" \o IntToStr(speed_value) \o ")",
                         90, "set_speed"))
       ELSE Some(Success("robot.settings(straight_speed=" \o IntToStr(speed_value) \o ")",
                         90, "set_speed"))

(***************************************************************************)
(* Advanced recognizers                                                    *)
(***************************************************************************)
try_parse_sensor_wait(tokens) ==
    LET has_until == has_token_type(tokens, "until")
        has_while == has_token_type(tokens, "while")
        has_sensor == has_token_type(tokens, "sensor")
        has_color == has_token_type(tokens, "color")
        has_move == has_verb(tokens, MOVE_VERBS)
        direction == find_token_by_type(tokens, "direction")
        is_moving_command ==
            has_move \/ (direction # None /\ direction[1].normalized \in {"forward", "backward"})
        sensor_token == find_token_by_type(tokens, "sensor")
        color_token == find_token_by_type(tokens, "color")
        comparison_token == find_token_by_type(tokens, "comparison")
        number_token == find_token_by_type(tokens, "number")
        color_name == str_upper(color_token[1].normalized)
        speed == IF DirIs(direction, "backward") THEN -200 ELSE 200
        sensor_name == IF sensor_token[1].normalized # "" THEN sensor_token[1].normalized
                       ELSE "sensor"
        comparison == IF comparison_token # None THEN comparison_token[1].normalized ELSE ">"
        value == IntOf(NumOr(number_token[1].numeric_value, 50), 1)
        reading == IF sensor_name \in {"light", "color"} THEN "color_sensor.reflection()"
                   ELSE IF sensor_name \in {"distance", "ultrasonic"}
                   THEN "distance_sensor.distance()"
                   ELSE IF sensor_name = "force" THEN "force_sensor.force()"
                   ELSE IF sensor_name = "gyro" THEN "hub.imu.heading()"
                   ELSE "sensor.reflection()"
        condition == IF has_while THEN comparison
                     ELSE IF comparison = ">" THEN "<=" ELSE ">="
        loop == "while " \o reading \o " " \o condition \o " " \o IntToStr(value)
                \o ":\n    wait(10)"
    IN IF (~has_until /\ ~has_while) \/ (~has_sensor /\ ~has_color) THEN None
       ELSE IF color_token # None
       THEN IF is_moving_command
            THEN Some(Success("# Drive until color detected\nrobot.drive("
                              \o IntToStr(speed) \o ", 0)\nwhile color_sensor.color() != Color."
                              \o color_name \o ":\n    wait(10)\nrobot.stop()",
                              90, "sensor_move"))
            ELSE Some(Success("while color_sensor.color() != Color." \o color_name
                              \o ":\n    wait(10)", 85, "sensor"))
       ELSE IF sensor_token # None /\ number_token # None
       THEN IF is_moving_command
            THEN Some(Success("# Drive until sensor condition met\nrobot.drive("
                              \o IntToStr(speed) \o ", 0)\n" \o loop \o "\nrobot.stop()",
                              90, "sensor_move"))
            ELSE Some(Success(loop, 85, "sensor"))
       ELSE None

try_parse_line_follow(tokens) ==
    LET has_until == has_token_type(tokens, "until")
        number_token == find_token_by_type(tokens, "number")
        unit_token == find_token_by_type(tokens, "unit")
        conversion == IF unit_token = None THEN 1
                      ELSE DictGet(UNIT_CONVERSIONS_KEYS, UNIT_CONVERSIONS_VALUES,
                                   NormOrValue(unit_token[1]), 1)
        distance == IF number_token = None THEN 0
                    ELSE IntOf(NumOr(number_token[1].numeric_value, 0), conversion)
        positive == number_token # None /\ number_token[1].numeric_value.n > 0
        stop_condition ==
            IF positive
            THEN "if robot.distance() >= " \o IntToStr(distance) \o ":\n        break"
            ELSE IF has_until THEN "# Add stop condition"
            ELSE ""
    IN IF ~has_token_type(tokens, "follow") \/ ~has_token_type(tokens, "line") THEN None
       ELSE Some(Success(
                "# Line following - adjust threshold and speed as needed\n"
                \o "threshold = 50\n"
                \o "while True:\n"
                \o "    error = left_light.reflection() - threshold\n"
                \o "    correction = error * 1.0  # Adjust gain as needed\n"
                \o "    left.run(200 - correction)\n"
                \o "    right.run(200 + correction)\n"
                \o "    " \o stop_condition \o "\n"
                \o "    wait(10)\n"
                \o "robot.stop()",
                75, "line_follow"))

ParallelScaffold ==
    "async def task1():\n    # First action\n    pass\n\n"
    \o "async def task2():\n    # Second action\n    pass\n\n"
    \o "await multitask(task1(), task2())"

\* the scaffold handed back as a failure that still carries code
try_parse_parallel_failed(tokens, input_str) ==
    IF has_token_type(tokens, "parallel")
    THEN <<[success |-> FALSE, python_code |-> <<ParallelScaffold>>,
            needs_clarification |-> <<>>, error |-> <<>>, confidence |-> 70,
            command_type |-> <<"parallel">>, needs_llm |-> TRUE]>>
    ELSE <<>>

try_parse_parallel(tokens, input_str) ==
    LET has_parallel == has_token_type(tokens, "parallel")
        has_and == str_contains(str_lower(input_str), " and ")
    IN IF ~has_parallel /\ ~has_and THEN None
       ELSE IF has_parallel
       THEN Some(ParseResult(TRUE, Some(ParallelScaffold), None, None, 70,
                             Some("parallel"), TRUE))
       ELSE None

try_parse_precise_turn(tokens, config) ==
    LET has_turn == has_verb(tokens, TURN_VERBS)
        has_precise == has_token_type(tokens, "precise")
        direction == find_token_by_type(tokens, "direction")
        angle_token == find_token_by_type(tokens, "number")
        magnitude == IntOf(NumOr(angle_token[1].numeric_value, 0), 1)
        angle == IF DirIs(direction, "left") THEN -magnitude ELSE magnitude
    IN IF ~has_turn \/ ~has_precise THEN None
       ELSE IF direction # None /\ direction[1].normalized \notin {"left", "right"}
       THEN None
       ELSE IF angle_token = None
       THEN Some(Clarify("angle", "What angle should the robot turn precisely?", "angle"))
       ELSE Some(Success(
                "# Precise turn using gyro feedback\n"
                \o "target_angle = hub.imu.heading() + " \o IntToStr(angle) \o "\n"
                \o "while abs(hub.imu.heading() - target_angle) > 1:\n"
                \o "    error = target_angle - hub.imu.heading()\n"
                \o "    speed = max(30, min(200, abs(error) * 2))\n"
                \o "    if error > 0:\n"
                \o "        left.run(-speed)\n"
                \o "        right.run(speed)\n"
                \o "    else:\n"
                \o "        left.run(speed)\n"
                \o "        right.run(-speed)\n"
                \o "    wait(10)\n"
                \o "robot.stop()",
                90, "precise_turn"))

(***************************************************************************)
(* Routine calls                                                           *)
(***************************************************************************)
CALL_PREFIXES == <<"run ", "call ", "execute ", "start ">>

RESERVED == <<"forward", "backward", "left", "right", "motor", "speed", "arm", "grabber">>

\* the parameter text after a matched name: text after 'with ', else the rest
ParamsOf(rest) ==
    IF str_startswith(rest, "with ") THEN str_strip(str_from(rest, 5)) ELSE rest

\* length of the match of -?\d+(?:\.\d+)? at the start of s (0: no match)
NumberLenAt(s) ==
    LET sign == IF str_startswith(s, "-") THEN 1 ELSE 0
        ip == SpanLen(str_from(s, sign), DIGITS)
        afterInt == str_from(s, sign + ip)
        fp == IF str_startswith(afterInt, ".") THEN SpanLen(Tail(afterInt), DIGITS) ELSE 0
    IN IF ip = 0 THEN 0 ELSE sign + ip + (IF fp > 0 THEN 1 + fp ELSE 0)

\* re.findall(r'-?\d+(?:\.\d+)?', s)
RECURSIVE FindNumbers(_)
FindNumbers(s) ==
    IF s = "" THEN <<>>
    ELSE IF NumberLenAt(s) > 0
    THEN <<SubSeq(s, 1, NumberLenAt(s))>> \o FindNumbers(str_from(s, NumberLenAt(s)))
    ELSE FindNumbers(Tail(s))

\* ", ".join(params)
RECURSIVE JoinComma(_)
JoinComma(params) ==
    IF params = <<>> THEN ""
    ELSE IF Len(params) = 1 THEN params[1]
    ELSE params[1] \o ", " \o JoinComma(Tail(params))

\* lines 798-822: <<>> or <<matched_routine, params_str>> for the first
\* routine name that matches, directly or after a call prefix
KnownRoutineMatch(input_lower, routine_name) ==
    IF str_startswith(input_lower, routine_name)
    THEN <<routine_name, ParamsOf(str_strip(str_from(input_lower, Len(routine_name))))>>
    ELSE LET hits == {p \in DOMAIN CALL_PREFIXES :
                          str_startswith(input_lower, CALL_PREFIXES[p] \o routine_name)}
         IN IF hits = {} THEN <<>>
            ELSE <<routine_name,
                   ParamsOf(str_strip(str_from(input_lower,
                       Len(CALL_PREFIXES[SetMin(hits)] \o routine_name))))>>

\* the loop breaks at the first name that matches; a matching empty name
\* leaves matched_routine falsy but params_str set
RECURSIVE KnownRoutineScan(_, _, _, _)
KnownRoutineScan(input_lower, routine_names, k, params_str) ==
    IF k > Len(routine_names) THEN <<"", params_str>>
    ELSE LET m == KnownRoutineMatch(input_lower, routine_names[k])
         IN IF m = <<>>
            THEN KnownRoutineScan(input_lower, routine_names, k + 1, params_str)
            ELSE IF m[1] # "" THEN m
            ELSE <<"", m[2]>>

\* lines 825-845: <<>> (return None), or <<matched_routine, params_str>>
GenericRoutineMatch(tokens, input_lower, params_str) ==
    LET hits == {p \in DOMAIN CALL_PREFIXES : str_startswith(input_lower, CALL_PREFIXES[p])}
        prefix == CALL_PREFIXES[SetMin(hits)]
        rest == str_strip(str_from(input_lower, Len(prefix)))
        idLen == IF rest # "" /\ IsIn(Head(rest), LOWER)
                 THEN 1 + SpanLen(Tail(rest), LOWER \o DIGITS \o "_")
                 ELSE 0
        potential_name == SubSeq(rest, 1, idLen)
    IN IF hits = {} \/ idLen = 0 THEN <<"", params_str>>
       ELSE IF has_token_type(tokens, "motor") THEN <<>>
       ELSE IF InList(potential_name, RESERVED) THEN <<"", params_str>>
       ELSE <<potential_name, ParamsOf(str_strip(str_from(rest, idLen)))>>

try_parse_routine_call(tokens, input_str, routine_names) ==
    LET input_lower == str_strip(str_lower(input_str))
        known == KnownRoutineScan(input_lower, routine_names, 1, "")
        match == IF known[1] # "" THEN known
                 ELSE GenericRoutineMatch(tokens, input_lower, known[2])
        params == IF match[2] # "" THEN FindNumbers(match[2]) ELSE <<>>
    IN IF match = <<>> THEN None
       ELSE IF match[1] = "" THEN None
       ELSE Some(Success(match[1] \o "(" \o JoinComma(params) \o ")", 95, "routine_call"))

(***************************************************************************)
(* Recursive recognizers: the parts around the sub-parses                  *)
(***************************************************************************)
\* '\n    '.join(code.split('\n'))
Indent(code) == str_replace(code, "\n", "\n    ")

\* the loop body taken to be the whole sentence
RepeatAction_whole(input_str) == input_str

\* lines 491-503: the action clause of a repeat sentence
RepeatAction(input_str) ==
    LET input_lower == str_lower(input_str)
    IN IF str_contains(input_lower, "times:")
       THEN str_strip(str_from(input_str, str_index(input_lower, "times:") - 1 + 6))
       ELSE IF str_contains(input_lower, "times :")
       THEN str_strip(str_from(input_str, str_index(input_lower, "times :") - 1 + 7))
       ELSE IF str_contains(input_str, ": ")
       THEN str_strip(str_from(input_str, str_index(input_str, ": ") - 1 + 2))
       ELSE IF str_contains(input_str, ":")
       THEN str_strip(str_from(input_str, str_index(input_str, ":") - 1 + 1))
       ELSE ""

\* count = int(number.numeric_value or 1)
RepeatCount(tokens) ==
    IntOf(NumOr(find_token_by_type(tokens, "number")[1].numeric_value, 1), 1)

\* lines 472-511: the result when no sub-parse is needed, else None
RepeatDirect(tokens, input_str) ==
    IF find_token_by_type(tokens, "number") = None
    THEN Some(ParseResult(FALSE, None,
                          Some(ClarificationRequest("count",
                               "How many times should the action repeat?", "distance")),
                          None, 70, Some("loop"), FALSE))
    ELSE IF RepeatAction(input_str) = ""
    THEN Some(Success("for i in range(" \o IntToStr(RepeatCount(tokens))
                      \o "):\n    # Add commands here\n    pass", 70, "loop"))
    ELSE None

\* lines 516-533: the result once the action has been parsed
RepeatAfter(tokens, input_str, action_result) ==
    IF action_result.success /\ action_result.python_code # None
       /\ action_result.python_code # Some("")
    THEN Success("for i in range(" \o IntToStr(RepeatCount(tokens)) \o "):\n    "
                 \o Indent(action_result.python_code[1]), 90, "loop")
    ELSE Success("for i in range(" \o IntToStr(RepeatCount(tokens)) \o "):\n    # "
                 \o RepeatAction(input_str) \o "\n    pass", 75, "loop")

MOVEMENT_WORDS == <<"move", "drive", "turn", "run", "motor">>

\* lines 886-897: the trigger
MultitaskTrigger(input_lower) ==
    \/ str_contains(input_lower, " while ")
    \/ str_contains(input_lower, "simultaneously")
    \/ str_contains(input_lower, "at the same time")
    \/ /\ str_contains(input_lower, " and ")
       /\ \E w \in DOMAIN MOVEMENT_WORDS : str_contains(input_lower, MOVEMENT_WORDS[w])

\* split(' and ', 1) of rest into two stripped descriptions, else two empty ones
SplitAnd(rest) ==
    IF str_contains(rest, " and ")
    THEN <<str_strip(str_split1(rest, " and ")[1]), str_strip(str_split1(rest, " and ")[2])>>
    ELSE <<"", "">>

\* lines 899-924: <<task1_desc, task2_desc>>
MultitaskSplit(input_lower) ==
    IF str_contains(input_lower, " while ")
    THEN LET parts == str_split(input_lower, " while ")
         IN IF Len(parts) = 2 THEN <<str_strip(parts[1]), str_strip(parts[2])>>
            ELSE <<"", "">>
    ELSE IF str_contains(input_lower, "simultaneously")
    THEN SplitAnd(str_strip(str_replace(input_lower, "simultaneously", "")))
    ELSE IF str_contains(input_lower, "at the same time")
    THEN SplitAnd(str_strip(str_replace(input_lower, "at the same time", "")))
    ELSE SplitAnd(input_lower)

\* lines 886-927: None (declines) or the two task descriptions
MultitaskTasks(input_str) ==
    LET input_lower == str_lower(input_str)
        tasks == MultitaskSplit(input_lower)
    IN IF ~MultitaskTrigger(input_lower) THEN None
       ELSE IF tasks[1] = "" \/ tasks[2] = "" THEN None
       ELSE Some(tasks)

\* a task body that ignores the sub-phrase's parse
TaskCode_todo(task_result, task_desc) == "# TODO: " \o task_desc

\* task_result.python_code if task_result.success else '# TODO: ...'
TaskCode(task_result, task_desc) ==
    IF task_result.success THEN task_result.python_code[1]
    ELSE "# TODO: " \o task_desc

\* lines 933-955: the result once both tasks have been parsed
MultitaskAfter(tasks, task1_result, task2_result) ==
    Success("# Parallel execution: " \o tasks[1] \o " AND " \o tasks[2] \o "\n"
            \o "async def task1():\n    "
            \o Indent(TaskCode(task1_result, tasks[1])) \o "\n\n"
            \o "async def task2():\n    "
            \o Indent(TaskCode(task2_result, tasks[2])) \o "\n\n"
            \o "await multitask(task1(), task2())",
            85, "multitask")

(***************************************************************************)
(* Inputs: the calls parse_command(input_str, config, motor_names,         *)
(* routine_names) that the model explores                                  *)
(***************************************************************************)
\* nesting depth of the generated repeat / while / and sentences
MaxNest == 2

\* length of the generated routine_names lists
MaxRoutines == 2

\* depth of the call stack beyond which no activation is pushed
MaxDepth == 8

\* " ".join(w for w in words if w)
RECURSIVE JoinWords(_)
JoinWords(words) ==
    IF words = <<>> THEN ""
    ELSE IF Head(words) = "" THEN JoinWords(Tail(words))
    ELSE IF JoinWords(Tail(words)) = "" THEN Head(words)
    ELSE Head(words) \o " " \o JoinWords(Tail(words))

Range(s) == {s[i] : i \in DOMAIN s}

\* [move verb] [direction] number[unit]
MoveSentences ==
    ({JoinWords(<<v, d, n \o u>>) :
         v \in {"", "move", "drive"}, d \in {"", "forward", "backward", "back"},
         n \in {"200", "10.5", "-100"},
         u \in {"", "mm", "cm", "m", " cm", " meters", " seconds"}}
     \cup {JoinWords(<<v, d, "20 cm">>) :
         v \in {""} \cup Range(MOVE_VERBS),
         d \in {""} \cup Range(FORWARD_WORDS) \cup Range(BACKWARD_WORDS)})
    \ {JoinWords(<<n \o u>>) :
         n \in {"200", "10.5", "-100", "20"},
         u \in {"", "mm", "cm", "m", " cm", " meters", " seconds"}}

\* wait verb, number, [unit]
WaitSentences ==
    {JoinWords(<<v, n \o u>>) :
        v \in {"wait", "pause"}, n \in {"2", "0.5", "500"},
        u \in {"", "ms", "s", " sec", " seconds", " min", " minutes", " milliseconds"}}
    \cup {v \o " 2 seconds" : v \in Range(WAIT_VERBS)}

\* a move, turn or wait cue without any number
BareSentences ==
    {"move forward", "move", "forward", "go back", "turn left", "turn", "right",
     "spin", "wait", "pause", "wait a bit", "move forward cm", "turn left degrees"}

OtherSentences ==
    {"turn left 90 degrees", "turn right 45", "spin 90", "turn left 90 at 50",
     "turn right 90 at 90", "turn left 90 speed 120",
     "move forward 200mm at 300", "move forward 200 at 200",
     "move forward 200mm at speed 300", "move forward mm 200",
     "move forward 2 m 50 cm", "Move Forward, 10cm!", "moove forward 100mm",
     "stop", "stop arm", "set speed to 300", "set speed", "set turn speed to 100",
     "speed 250", "run arm 180 degrees", "run arm", "spin motor 90",
     "turn left precisely 90", "turn precisely", "turn forward precisely 10",
     "follow line", "follow line 20cm", "follow the line until black",
     "wait until color sensor sees black", "move forward until color is white",
     "move forward until distance sensor less 100", "wait while force sensor greater 5",
     "wait until sensor", "together", "lift both together", "in parallel",
     "dance around happily", "hello", "wait 2 mm", "wait 1 m", "", "   ", ":", "wait 2 and beep",
     "wait 2 seconds then turn left 90",
     "move forward 200mm while running motor 180 degrees",
     "simultaneously move forward 100mm and turn right 45 degrees",
     "move forward 200mm and run motor 90 degrees at the same time",
     "simultaneously", "wait 1 second", "together while hello",
     "simultaneously move and turn left and wait", "x while y while z", "return while x",
     "move while  ", " while move", "repeat", "repeat 3 times", "repeat 0 times: stop",
     "repeat 3 times : turn left 90", "loop 2: wait 1", "do 2:stop",
     "repeat 2 times: dance", "repeat 2 times: move forward",
     "Repeat 2 Times: Run Arm 90",
     "wait until distance sensor equals 100", "wait until light sensor greater 50",
     "wait until force sensor less 5", "wait during force sensor less 5",
     "wait as distance sensor equals 100", "wait during light sensor above 30",
     "turn 90 slowly", "forward 200 fast", "right 90 slowly", "turn left 90 slowly",
     "move forward 200 fast", "set turn speed left 100"}

NestBase == {"move forward 100", "wait 2", "turn left", "dance"}

Wrap(S) ==
    {"repeat 2 times: " \o s : s \in S}
    \cup {s \o " while " \o t : s \in S, t \in {"wait 1", "turn right 45"}}
    \cup {s \o " and " \o t : s \in S, t \in {"turn right 45"}}
    \cup {"simultaneously " \o s \o " and " \o t : s \in S, t \in {"wait 1"}}

RECURSIVE Nested(_)
Nested(k) == IF k = 0 THEN NestBase ELSE Wrap(Nested(k - 1))

NestedSentences == UNION {Nested(k) : k \in 1..MaxNest}

\* 'move forward <d>mm at <s>' and 'turn left <a> at <r>'
AtSentences ==
    {"move forward " \o d \o "mm at " \o v : d \in {"100", "200"}, v \in {"200", "300"}}
    \cup {"turn left " \o a \o " at " \o r : a \in {"45", "90"}, r \in {"90", "50"}}

\* sentences whose unparsable clause runs over two lines
MultiLineSentences == {"repeat 2 times: dance\nhello", "dance\nhello while sing"}

PlainSentences ==
    MoveSentences \cup WaitSentences \cup BareSentences \cup OtherSentences
    \cup NestedSentences \cup AtSentences \cup MultiLineSentences

RoutineNames == {"mission", "mission1", "square"}

\* lists of distinct routine names, at most MaxRoutines long
RECURSIVE ListsOfLen(_)
ListsOfLen(k) ==
    IF k = 0 THEN {<<>>}
    ELSE {Append(l, r) : l \in ListsOfLen(k - 1), r \in RoutineNames}

RoutineLists ==
    {l \in UNION {ListsOfLen(k) : k \in 0..MaxRoutines} :
        \A i, j \in DOMAIN l : i # j => l[i] # l[j]}

RoutineSentences ==
    {p \o r \o s : p \in {"", "run ", "call ", "execute ", "start "},
                   r \in RoutineNames \cup {"nonexistent"},
                   s \in {"", " with 200"}}
    \cup {"Run Mission1", "run arm", "call forward", "run arm_up 3", "run 5",
          "square 100 50", "mission1 while square", "repeat 2 times: mission1",
          "repeat 2 times: repeat 3 times: mission1",
          "start", "move forward 200mm"}

MotorSentences ==
    {"run arm 180 degrees", "repeat 2 times: run arm 90",
     "run arm 90 while move forward 100", "stop arm"}

Configs == {RobotConfig, [RobotConfig EXCEPT !.motor_speed = 300]}

Request(input_str, config, motor_names, routine_names) ==
    [input_str |-> input_str, config |-> config, motor_names |-> motor_names,
     routine_names |-> routine_names]

Requests ==
    {Request(s, RobotConfig, <<>>, <<>>) : s \in PlainSentences}
    \cup {Request(s, RobotConfig, <<>>, l) : s \in RoutineSentences, l \in RoutineLists}
    \cup {Request(s, c, <<"attachment1">>, <<>>) : s \in MotorSentences, c \in Configs}

(***************************************************************************)
(* parse_command as a state machine                                        *)
(*                                                                         *)
(* stack is the Python call stack of parse_command activations, the last   *)
(* element being the running one.  ret is the value returned by the call   *)
(* that finished last, calls the log of all finished calls.                *)
(***************************************************************************)
VARIABLES args, stack, ret, calls, batch, sim

vars == <<args, stack, ret, calls, batch, sim>>

\* the order with the turn recognizer consulted before the precise turn one
PRIORITY_turn_first == <<"routine_call", "multitask", "repeat", "sensor_wait", "line_follow",
    "parallel", "stop", "set_speed", "motor", "turn", "precise_turn", "move", "wait">>

\* recognizer priority order of parse_command, lines 71-125
PRIORITY == <<"routine_call", "multitask", "repeat", "sensor_wait", "line_follow",
    "parallel", "stop", "set_speed", "motor", "precise_turn", "turn", "move", "wait">>

\* where control goes when the recognizer at pc returns None
After(pc) ==
    LET k == CHOOSE i \in DOMAIN PRIORITY : PRIORITY[i] = pc
    IN IF k < Len(PRIORITY) THEN PRIORITY[k + 1] ELSE "no_match"

\* the activation record of parse_command(input_str, config, motor_names, routine_names)
Frame(input_str, config, motor_names, routine_names) ==
    [input_str |-> input_str, config |-> config, motor_names |-> motor_names,
     routine_names |-> routine_names, tokens |-> <<>>, pc |-> "tokenize",
     task1_result |-> None]

Top == stack[Len(stack)]

At(pc) == stack # <<>> /\ Top.pc = pc

Goto(pc) == [stack EXCEPT ![Len(stack)].pc = pc]

\* return result: pop the activation and hand the value to the caller
Return(result) ==
    /\ stack' = SubSeq(stack, 1, Len(stack) - 1)
    /\ ret' = Some(result)
    /\ calls' = calls \cup
           {[input_str |-> Top.input_str, config |-> Top.config,
             motor_names |-> Top.motor_names, routine_names |-> Top.routine_names,
             tokens |-> Top.tokens, by |-> Top.pc, depth |-> Len(stack),
             result |-> result]}
    /\ UNCHANGED <<args, batch, sim>>

\* call parse_command(...): push an activation; the caller resumes at resume
Call(resume, input_str, config, motor_names, routine_names) ==
    /\ Len(stack) < MaxDepth
    /\ stack' = Append(Goto(resume), Frame(input_str, config, motor_names, routine_names))
    /\ UNCHANGED <<args, ret, calls, batch, sim>>

\* result = try_parse_x(...); if result: return result
Consult(pc, result) ==
    /\ At(pc)
    /\ IF result = None
       THEN stack' = Goto(After(pc)) /\ UNCHANGED <<args, ret, calls, batch, sim>>
       ELSE Return(result[1])

\* lines 63-66
Tokenize ==
    /\ At("tokenize")
    /\ LET tokens == tokenize(Top.input_str)
       IN IF tokens = <<>>
          THEN Return(ParseResult(FALSE, None, None, Some("Empty command"), 0, None, FALSE))
          ELSE /\ stack' = [stack EXCEPT ![Len(stack)].tokens = tokens,
                                         ![Len(stack)].pc = PRIORITY[1]]
               /\ UNCHANGED <<args, ret, calls, batch, sim>>

TryRoutineCall ==
    Consult("routine_call",
            try_parse_routine_call(Top.tokens, Top.input_str, Top.routine_names))

\* try_parse_multitask up to the first sub-parse, lines 886-930
TryMultitask ==
    /\ At("multitask")
    /\ LET tasks == MultitaskTasks(Top.input_str)
       IN IF tasks = None
          THEN stack' = Goto(After("multitask")) /\ UNCHANGED <<args, ret, calls, batch, sim>>
          ELSE Call("multitask_task2", tasks[1][1], Top.config, Top.motor_names, <<>>)

\* line 931: task1_result is back, parse the second task
MultitaskTask2 ==
    /\ At("multitask_task2")
    /\ LET tasks == MultitaskTasks(Top.input_str)
       IN /\ Len(stack) < MaxDepth
          /\ stack' = Append([stack EXCEPT ![Len(stack)].pc = "multitask_join",
                                           ![Len(stack)].task1_result = ret],
                             Frame(tasks[1][2], Top.config, Top.motor_names, <<>>))
          /\ UNCHANGED <<args, ret, calls, batch, sim>>

\* lines 933-955
MultitaskJoin ==
    /\ At("multitask_join")
    /\ Return(MultitaskAfter(MultitaskTasks(Top.input_str)[1], Top.task1_result[1], ret[1]))

\* the loop body parsed with the caller's routine names
TryRepeat_routines ==
    /\ At("repeat")
    /\ IF ~has_token_type(Top.tokens, "repeat")
       THEN stack' = Goto(After("repeat")) /\ UNCHANGED <<args, ret, calls, batch, sim>>
       ELSE IF RepeatDirect(Top.tokens, Top.input_str) # None
       THEN Return(RepeatDirect(Top.tokens, Top.input_str)[1])
       ELSE Call("repeat_join", RepeatAction(Top.input_str), RobotConfig, <<>>,
                 Top.routine_names)

\* try_parse_repeat up to the sub-parse, lines 472-514
TryRepeat ==
    /\ At("repeat")
    /\ IF ~has_token_type(Top.tokens, "repeat")
       THEN stack' = Goto(After("repeat")) /\ UNCHANGED <<args, ret, calls, batch, sim>>
       ELSE IF RepeatDirect(Top.tokens, Top.input_str) # None
       THEN Return(RepeatDirect(Top.tokens, Top.input_str)[1])
       ELSE Call("repeat_join", RepeatAction(Top.input_str), RobotConfig, <<>>, <<>>)

\* lines 516-533
RepeatJoin ==
    /\ At("repeat_join")
    /\ Return(RepeatAfter(Top.tokens, Top.input_str, ret[1]))

TrySensorWait == Consult("sensor_wait", try_parse_sensor_wait(Top.tokens))

TryLineFollow == Consult("line_follow", try_parse_line_follow(Top.tokens))

TryParallel == Consult("parallel", try_parse_parallel(Top.tokens, Top.input_str))

TryStop == Consult("stop", try_parse_stop(Top.tokens, Top.motor_names))

TrySetSpeed == Consult("set_speed", try_parse_set_speed(Top.tokens))

TryMotor == Consult("motor", try_parse_motor(Top.tokens, Top.config, Top.motor_names))

TryPreciseTurn == Consult("precise_turn", try_parse_precise_turn(Top.tokens, Top.config))

TryTurn == Consult("turn", try_parse_turn(Top.tokens, Top.config))

TryMove == Consult("move", try_parse_move(Top.tokens, Top.config))

TryWait == Consult("wait", try_parse_wait(Top.tokens))

\* lines 127-133
NoMatch ==
    /\ At("no_match")
    /\ Return(ParseResult(FALSE, None, None, Some("Could not parse command"), 0, None, TRUE))

Init ==
    /\ args \in Requests
    /\ stack = <<Frame(args.input_str, args.config, args.motor_names, args.routine_names)>>
    /\ ret = None
    /\ calls = {}
    /\ batch = None
    /\ sim = None

Next ==
    \/ Tokenize
    \/ TryRoutineCall
    \/ TryMultitask
    \/ MultitaskTask2
    \/ MultitaskJoin
    \/ TryRepeat
    \/ RepeatJoin
    \/ TrySensorWait
    \/ TryLineFollow
    \/ TryParallel
    \/ TryStop
    \/ TrySetSpeed
    \/ TryMotor
    \/ TryPreciseTurn
    \/ TryTurn
    \/ TryMove
    \/ TryWait
    \/ NoMatch

Spec == Init /\ [][Next]_vars

(***************************************************************************)
(* Properties                                                              *)
(***************************************************************************)
Done == stack = <<>>

\* the recognizer order as the specification states it
ClaimOrder == <<"routine_call", "multitask", "repeat", "sensor_wait", "line_follow",
    "parallel", "stop", "set_speed", "motor", "precise_turn", "turn", "move", "wait">>

\* what the recognizer called name returns for the finished call c, where it
\* depends on no sub-parse: None, or the result
Direct(name, c) ==
    CASE name = "routine_call" ->
             try_parse_routine_call(c.tokens, c.input_str, c.routine_names)
      [] name = "sensor_wait" -> try_parse_sensor_wait(c.tokens)
      [] name = "line_follow" -> try_parse_line_follow(c.tokens)
      [] name = "parallel" -> try_parse_parallel(c.tokens, c.input_str)
      [] name = "stop" -> try_parse_stop(c.tokens, c.motor_names)
      [] name = "set_speed" -> try_parse_set_speed(c.tokens)
      [] name = "motor" -> try_parse_motor(c.tokens, c.config, c.motor_names)
      [] name = "precise_turn" -> try_parse_precise_turn(c.tokens, c.config)
      [] name = "turn" -> try_parse_turn(c.tokens, c.config)
      [] name = "move" -> try_parse_move(c.tokens, c.config)
      [] name = "wait" -> try_parse_wait(c.tokens)

\* the recognizer called name returns None for the finished call c
Declines(name, c) ==
    CASE name = "multitask" -> MultitaskTasks(c.input_str) = None
      [] name = "repeat" -> ~has_token_type(c.tokens, "repeat")
      [] OTHER -> Direct(name, c) = None

Matching(c) == {k \in DOMAIN ClaimOrder : ~Declines(ClaimOrder[k], c)}

CouldNotParse ==
    [success |-> FALSE, python_code |-> None, needs_clarification |-> None,
     error |-> Some("Could not parse command"), confidence |-> 0,
     command_type |-> None, needs_llm |-> TRUE]

\* C1: every finished parse_command call on a non-empty token sequence
\* returned the result of the first recognizer, in the stated order, that
\* does not decline; and it returned the 'Could not parse command' failure
\* (confidence 0, needs_llm) exactly when all thirteen decline.
C1_FirstMatchWins ==
    \A c \in calls :
        c.tokens # <<>> =>
            IF Matching(c) = {}
            THEN c.by = "no_match" /\ c.result = CouldNotParse
            ELSE LET first == ClaimOrder[SetMin(Matching(c))]
                 IN /\ c.result # CouldNotParse
                    /\ CASE first = "multitask" ->
                                /\ c.by = "multitask_join"
                                /\ c.result.command_type = Some("multitask")
                         [] first = "repeat" ->
                                /\ c.by \in {"repeat", "repeat_join"}
                                /\ c.result.command_type = Some("loop")
                         [] OTHER ->
                                /\ c.by = first
                                /\ c.result = Direct(first, c)[1]

\* a finished top-level call that two recognizers would both have accepted
C1_Witness ==
    /\ Done
    /\ \E c \in calls :
           c.depth = 1 /\ Cardinality(Matching(c)) >= 2 /\ c.by = "precise_turn"

IsSuccess(r) == r.success /\ r.python_code # None

\* C2 (as stated): exactly one of Success, NeedsClarification, NeedsLLM and
\* Error is active in every returned ParseResult.
C2_ExactlyOneOutcome ==
    \A c \in calls :
        Cardinality({o \in {"success", "clarification", "llm", "error"} :
            \/ o = "success" /\ IsSuccess(c.result)
            \/ o = "clarification" /\ c.result.needs_clarification # None
            \/ o = "llm" /\ c.result.needs_llm
            \/ o = "error" /\ c.result.error # None}) = 1

\* C2 (amended): every returned ParseResult is exactly one of a success with
\* code, a clarification request, or an error; success is set exactly when
\* code is present; needs_llm accompanies only the 'Could not parse command'
\* error and the successful 'parallel' scaffold.
C2_OutcomeShape ==
    \A c \in calls :
        /\ Cardinality({o \in {"success", "clarification", "error"} :
               \/ o = "success" /\ IsSuccess(c.result)
               \/ o = "clarification" /\ c.result.needs_clarification # None
               \/ o = "error" /\ c.result.error # None}) = 1
        /\ c.result.success <=> c.result.python_code # None
        /\ c.result.needs_llm =>
               \/ c.result = CouldNotParse
               \/ IsSuccess(c.result) /\ c.result.command_type = Some("parallel")

\* both needs_llm shapes have been returned
C2_Witness ==
    /\ \E c \in calls : c.result.needs_llm /\ c.result.success
    /\ \E c \in calls : c.result.needs_llm /\ c.result.error # None

\* every activation below the first parses a strictly shorter string
ShorterSubParses ==
    \A i \in 2..Len(stack) : Len(stack[i].input_str) < Len(stack[i - 1].input_str)

\* the positions of one activation, in the order it passes through them
PcOrder == <<"tokenize", "routine_call", "multitask", "multitask_task2", "multitask_join",
    "repeat", "repeat_join", "sensor_wait", "line_follow", "parallel", "stop",
    "set_speed", "motor", "precise_turn", "turn", "move", "wait", "no_match">>

\* how many positions an activation still has before it
PcRank(pc) == Len(PcOrder) - (CHOOSE k \in DOMAIN PcOrder : PcOrder[k] = pc)

\* the well-founded order on call stacks: t is below s when, at the first
\* activation where they differ, t's has advanced or t has ended
StackLess(t, s) ==
    \E i \in 1..Len(s) :
        /\ \A j \in 1..(i - 1) :
               j <= Len(t) /\ t[j].input_str = s[j].input_str /\ t[j].pc = s[j].pc
        /\ \/ Len(t) = i - 1
           \/ /\ Len(t) >= i
              /\ t[i].input_str = s[i].input_str
              /\ PcRank(t[i].pc) < PcRank(s[i].pc)

TopCalls == {c \in calls : c.depth = 1}

\* C5: for every known routine name r, the sentences 'r', 'run r', 'call r',
\* 'execute r' and 'start r' return the successful routine call 'r()' with
\* confidence 0.95, and 'r with 200' returns 'r(200)', whatever else is in
\* the list.
C5_RoutineResolution ==
    \A c \in TopCalls : \A r \in Range(c.routine_names) :
        /\ c.input_str \in {r, "run " \o r, "call " \o r, "execute " \o r, "start " \o r}
               => c.result = Success(r \o "()", 95, "routine_call")
        /\ c.input_str = r \o " with 200"
               => c.result = Success(r \o "(200)", 95, "routine_call")

CallVerbs == {"run", "call", "execute", "start"}

\* C6: when the word after a call verb is not a known routine name, the
\* result is not a routine call.
C6_UnknownRoutineNoMatch ==
    \A c \in TopCalls :
        LET words == str_words(str_lower(c.input_str))
        IN (/\ Len(words) >= 2
            /\ words[1] \in CallVerbs
            /\ words[2] \notin Range(c.routine_names))
               => c.result.command_type # Some("routine_call")

\* the finished call of parse_command(desc, config, motor_names, [])
SubCall(c, desc) ==
    CHOOSE s \in calls :
        /\ s.input_str = desc
        /\ s.config = c.config
        /\ s.motor_names = c.motor_names
        /\ s.routine_names = <<>>

\* the body of a task: the code of the sub-phrase's parse, else a placeholder
TaskBody(c, desc) ==
    IF SubCall(c, desc).result.success THEN SubCall(c, desc).result.python_code[1]
    ELSE "# TODO: " \o desc

\* the sentence has ' while ' exactly once with text on both sides
OneWhile(input_lower) ==
    /\ Len(str_split(input_lower, " while ")) = 2
    /\ str_strip(str_split(input_lower, " while ")[1]) # ""
    /\ str_strip(str_split(input_lower, " while ")[2]) # ""

NoMultitaskTrigger(input_lower) ==
    /\ ~str_contains(input_lower, " while ")
    /\ ~str_contains(input_lower, "simultaneously")
    /\ ~str_contains(input_lower, "at the same time")
    /\ ~(/\ str_contains(input_lower, " and ")
         /\ \E w \in {"move", "drive", "turn", "run", "motor"} : str_contains(input_lower, w))

DistanceUnitFactor(u) ==
    IF u \in {"mm", "millimeter", "millimeters", "millimetre", "millimetres"} THEN 1
    ELSE IF u \in {"cm", "centimeter", "centimeters", "centimetre", "centimetres"} THEN 10
    ELSE IF u \in {"m", "meter", "meters", "metre", "metres"} THEN 1000
    ELSE 1

\* the number the claim names as the distance: the nearest number before the
\* first unit token, otherwise the first number
ClaimedDistance(tokens) ==
    LET units == {i \in DOMAIN tokens : tokens[i].type = "unit"}
        nums == {i \in DOMAIN tokens : tokens[i].type = "number"}
        before == IF units = {} THEN {} ELSE {i \in nums : i < SetMin(units)}
    IN IF before # {} THEN tokens[SetMax(before)].numeric_value
       ELSE tokens[SetMin(nums)].numeric_value

\* int(n * f), negated when the first direction is backward
ClaimedStraight(tokens) ==
    LET units == {i \in DOMAIN tokens : tokens[i].type = "unit"}
        dirs == {i \in DOMAIN tokens : tokens[i].type = "direction"}
        f == IF units = {} THEN 1 ELSE DistanceUnitFactor(tokens[SetMin(units)].normalized)
        n == ClaimedDistance(tokens)
        k == IF n.n >= 0 THEN (n.n * f) \div n.d ELSE -((-n.n * f) \div n.d)
    IN IF dirs # {} /\ tokens[SetMin(dirs)].normalized = "backward" THEN -k ELSE k

HasNumber(tokens) == \E i \in DOMAIN tokens : tokens[i].type = "number"

\* C8: a sentence made of a move verb and/or a forward/backward direction, a
\* number n and an optional unit is a 'move' whose code is
\* robot.straight(k), k = int(n * f) with f = 1 (mm or no unit), 10 (cm),
\* 1000 (m), negated exactly when the direction is backward; and whenever the
\* move recognizer answers with a distance, the straight call carries the
\* number before the first unit, otherwise the first number.
C8_StraightDistance ==
    \A c \in calls :
        /\ c.input_str \in MoveSentences
               => c.result = Success("robot.straight("
                                     \o IntToStr(ClaimedStraight(c.tokens)) \o ")",
                                     95, "move")
        /\ (c.by = "move" /\ HasNumber(c.tokens))
               => /\ c.result.command_type = Some("move")
                  /\ str_contains("\n" \o c.result.python_code[1] \o "\n",
                         "\nrobot.straight(" \o IntToStr(ClaimedStraight(c.tokens)) \o ")\n")

\* a backward move of 10.5 cm has been compiled to 105 mm backward
C8_Witness ==
    \E c \in TopCalls :
        /\ c.input_str = "move backward 10.5cm"
        /\ c.by = "move"
        /\ c.result.python_code = Some("robot.straight(-105)")

TimeUnitFactor(u) ==
    IF u \in {"ms", "millisecond", "milliseconds"} THEN 1
    ELSE IF u \in {"s", "sec", "second", "seconds"} THEN 1000
    ELSE IF u \in {"min", "minute", "minutes"} THEN 60000
    ELSE 1000

\* C9: a sentence made of a wait verb and a number n, with or without a
\* time unit, is a 'wait' whose code is wait(int(n * c)), c = 1 for
\* milliseconds, 1000 for seconds, 60000 for minutes, and 1000 when the
\* sentence has no unit token.
C9_WaitDuration ==
    \A c \in calls :
        LET units == {i \in DOMAIN c.tokens : c.tokens[i].type = "unit"}
            nums == {i \in DOMAIN c.tokens : c.tokens[i].type = "number"}
            n == c.tokens[SetMin(nums)].numeric_value
            f == IF units = {} THEN 1000
                 ELSE TimeUnitFactor(c.tokens[SetMin(units)].normalized)
        IN c.input_str \in WaitSentences
               => c.result = Success("wait(" \o IntToStr((n.n * f) \div n.d) \o ")",
                                     90, "wait")

ClaimedClarification(by) ==
    CASE by = "move" -> <<"distance", "distance">>
      [] by = "turn" -> <<"angle", "angle">>
      [] by = "wait" -> <<"duration", "duration">>

\* C10: when the move, turn or wait recognizer is the first to match and the
\* sentence has no number token, the result is unsuccessful, has no code and
\* asks for ('distance', 'distance'), ('angle', 'angle') or ('duration',
\* 'duration') respectively.
C10_MissingParameter ==
    \A c \in calls :
        (c.by \in {"move", "turn", "wait"} /\ ~HasNumber(c.tokens))
            => /\ ~c.result.success
               /\ c.result.python_code = None
               /\ c.result.needs_clarification # None
               /\ <<c.result.needs_clarification[1].field,
                    c.result.needs_clarification[1].type>> = ClaimedClarification(c.by)

\* each of the three recognizers has asked for its missing parameter, in the
\* sub-parses of one sentence
C10_Witness ==
    \A by \in {"move", "turn", "wait"} :
        \E c \in calls :
            /\ c.by = by
            /\ ~HasNumber(c.tokens)
            /\ c.result.needs_clarification # None


HasType(tokens, ty) == \E i \in DOMAIN tokens : tokens[i].type = ty

FirstOfType(tokens, ty) == tokens[SetMin({i \in DOMAIN tokens : tokens[i].type = ty})]

Negation(op) ==
    CASE op = ">" -> "<="
      [] op = "<" -> ">="
      [] op = "==" -> "!="

\* C19: when the sensor-wait recognizer answers a sensor-plus-number
\* condition whose comparison operator op is one of >, < and ==, the emitted
\* loop is 'while <reading> <c> <value>:' where c is the negation of op
\* (<=, >=, !=) when the keyword is 'until' and op itself when the keyword
\* is 'while'.
C19_SensorCondition ==
    \A c \in calls :
        LET op == IF HasType(c.tokens, "comparison")
                  THEN FirstOfType(c.tokens, "comparison").normalized ELSE ">"
            n == FirstOfType(c.tokens, "number").numeric_value
            cond == IF HasType(c.tokens, "until") THEN Negation(op) ELSE op
        IN (/\ c.by = "sensor_wait"
            /\ HasType(c.tokens, "sensor") /\ HasType(c.tokens, "number")
            /\ ~HasType(c.tokens, "color")
            /\ HasType(c.tokens, "until") # HasType(c.tokens, "while")
            /\ op \in {">", "<", "=="})
               => /\ c.result.success
                  /\ str_contains(c.result.python_code[1],
                                  " " \o cond \o " " \o IntToStr(n.n \div n.d) \o ":")

MoveTrigger(tokens) ==
    \/ has_verb(tokens, MOVE_VERBS)
    \/ \E i \in DOMAIN tokens : /\ tokens[i].type = "direction"
                                /\ tokens[i].normalized \in {"forward", "backward"}

TurnTrigger(tokens) ==
    \/ has_verb(tokens, TURN_VERBS)
    \/ \E i \in DOMAIN tokens : /\ tokens[i].type = "direction"
                                /\ tokens[i].normalized \in {"left", "right"}

\* C20: for a token sequence with a speed word, no set verb, and the trigger
\* of the move recognizer (a move verb or a forward/backward direction) or of
\* the turn recognizer (a turn verb or a left/right direction), the set-speed
\* recognizer declines: the call is not answered by it and its result is not
\* of command type 'set_speed'.
C20_SetSpeedNeverShadows ==
    \A c \in calls :
        (/\ HasType(c.tokens, "speed")
         /\ ~has_verb(c.tokens, SET_VERBS)
         /\ MoveTrigger(c.tokens) \/ TurnTrigger(c.tokens))
            => /\ try_parse_set_speed(c.tokens) = None
               /\ c.by # "set_speed"
               /\ c.result.command_type # Some("set_speed")

(***************************************************************************)
(* The /parse pipeline (api/parser.py) and the main section of the program *)
(*                                                                         *)
(* batch is the activation of parse_commands: the request, the settings,   *)
(* the loop position and the three accumulators, with log the record of    *)
(* what happened to each command that was parsed.                          *)
(***************************************************************************)
MaxBatch == 2

\* what a provider may send back as code (call_openai strips code fences
\* and white space, which can leave nothing)
LlmCodes == {"robot.straight(50)", ""}

LlmHints == {"Angle needed - e.g., turn left 90 degrees"}

LlmFailure == ParseResult(FALSE, None, None, Some("LLM parsing not available"), 0, None, FALSE)

\* the results try_llm_parse can return: the provider's code when a key is
\* configured and the call succeeds, the failure in every other case
try_llm_parse(has_key) ==
    {LlmFailure}
    \cup (IF has_key
          THEN {ParseResult(TRUE, Some(code), None, None, 85, Some("llm"), FALSE) :
                    code \in LlmCodes}
          ELSE {})

\* the messages try_llm_help can return
try_llm_help(has_key, default_message) ==
    {default_message} \cup (IF has_key THEN LlmHints ELSE {})

result_to_schema(original, result) ==
    [original |-> original,
     python_code |-> result.python_code,
     status |-> IF result.success THEN "parsed"
                ELSE IF result.needs_clarification # None THEN "needs_clarification"
                ELSE IF result.needs_llm THEN "needs_llm"
                ELSE "error",
     error |-> result.error,
     clarification |-> result.needs_clarification,
     command_type |-> result.command_type,
     confidence |-> result.confidence]

RECURSIVE str_join(_, _)
str_join(sep, parts) ==
    IF parts = <<>> THEN ""
    ELSE IF Len(parts) = 1 THEN parts[1]
    ELSE parts[1] \o sep \o str_join(sep, Tail(parts))

\* lines 41-46 of generate_full_program: some command code starts with
\* 'robot.' or mentions one of the drive motors
needs_drivebase(commands) ==
    \E k \in DOMAIN commands :
        \/ str_startswith(str_strip(commands[k]), "robot.")
        \/ str_contains(commands[k], "left_motor")
        \/ str_contains(commands[k], "right_motor")

\* lines 68-86
generate_imports(uses_multitask, drivebase) ==
    str_join("\n",
        <<"from pybricks.hubs import PrimeHub",
          "from pybricks.pupdevices import Motor",
          "from pybricks.parameters import Port, Direction, Stop">>
        \o (IF drivebase THEN <<"from pybricks.robotics import DriveBase">> ELSE <<>>)
        \o (IF uses_multitask THEN <<"from pybricks.tools import wait, multitask, run_task">>
            ELSE <<"from pybricks.tools import wait">>))

\* lines 121-184, for a configuration with the default ports and wheels and
\* with no attachment motor and no sensor port
generate_setup_code(config, drivebase) ==
    str_join("\n",
        <<"# Initialize hub", "hub = PrimeHub()", "">>
        \o (IF drivebase
            THEN <<"# Motor setup",
                   "left_motor = Motor(Port.A, Direction.COUNTERCLOCKWISE)",
                   "right_motor = Motor(Port.B, Direction.CLOCKWISE)",
                   "",
                   "# DriveBase setup",
                   "robot = DriveBase(left_motor, right_motor, wheel_diameter=56, axle_track=112)",
                   "robot.settings(straight_speed=" \o IntToStr(config.speed)
                       \o ", straight_acceleration=700, turn_rate="
                       \o IntToStr(config.turn_rate) \o ", turn_acceleration=300)",
                   "">>
            ELSE <<>>))

\* the main section made of the first command only
generate_main_code_first(commands) ==
    IF commands = <<>> THEN "# Add your commands here\npass"
    ELSE commands[1]

generate_main_code(commands) ==
    IF commands = <<>> THEN "# Add your commands here\npass"
    ELSE str_join("\n", commands)

\* lines 32-65: the imports, setup and main sections of the program
generate_full_program(config, commands, uses_multitask) ==
    LET drivebase == needs_drivebase(commands)
    IN [imports |-> generate_imports(uses_multitask, drivebase),
        setup |-> generate_setup_code(config, drivebase),
        main |-> generate_main_code(commands),
        uses_multitask |-> uses_multitask]

BatchCommands ==
    {"move forward 100", "hello", "together", "turn left", "  ", ":", "repeat 2 times: stop"}

RECURSIVE CommandLists(_)
CommandLists(k) ==
    IF k = 0 THEN {<<>>}
    ELSE {Append(l, c) : l \in CommandLists(k - 1), c \in BatchCommands}

CoverBatch ==
    <<"mission1", " move forward 100 while wait 1", "repeat 2 times: stop ", "   ",
      "turn right", "wait 2", "set speed to 300", "dance">>

\* ParseRequest: between 1 and 100 commands
ParseRequests ==
    {[commands |-> l, routine_names |-> <<"mission1">>] :
        l \in UNION {CommandLists(k) : k \in 1..MaxBatch} \cup {CoverBatch}}

ParseCommands(request, has_key) ==
    [commands |-> request.commands, config |-> RobotConfig, motor_names |-> <<>>,
     routine_names |-> request.routine_names, has_key |-> has_key,
     i |-> 1, pc |-> "loop", command |-> "", result |-> None,
     results |-> <<>>, python_codes |-> <<>>, uses_multitask |-> FALSE,
     log |-> <<>>, program |-> None]

InBatch(pc) == batch # None /\ batch.pc = pc

\* lines 209-215: the next command is stripped, skipped when blank, and
\* handed to parse_command otherwise
NextCommand ==
    /\ InBatch("loop")
    /\ batch.i <= Len(batch.commands)
    /\ LET command == str_strip(batch.commands[batch.i])
       IN IF command = ""
          THEN /\ batch' = [batch EXCEPT !.i = @ + 1]
               /\ UNCHANGED <<args, stack, ret, calls, sim>>
          ELSE /\ batch' = [batch EXCEPT !.pc = "parse", !.command = command]
               /\ args' = Request(command, batch.config, batch.motor_names,
                                  batch.routine_names)
               /\ stack' = <<Frame(command, batch.config, batch.motor_names,
                                   batch.routine_names)>>
               /\ ret' = None
               /\ UNCHANGED <<calls, sim>>

\* lines 217-220: the fallback is tried for a failed result flagged needs_llm
\* and its result replaces the rule-based one when it is a success
TryLlmParse ==
    /\ InBatch("parse")
    /\ stack = <<>>
    /\ LET result == ret[1]
       IN IF result.needs_llm /\ ~result.success
          THEN \E llm_result \in try_llm_parse(batch.has_key) :
                   batch' = [batch EXCEPT
                       !.pc = "append",
                       !.result = Some(IF llm_result.success THEN llm_result ELSE result),
                       !.log = Append(@, [command |-> batch.command, rule |-> result,
                                          attempted |-> TRUE, llm |-> Some(llm_result)])]
          ELSE batch' = [batch EXCEPT
                   !.pc = "append",
                   !.result = Some(result),
                   !.log = Append(@, [command |-> batch.command, rule |-> result,
                                      attempted |-> FALSE, llm |-> None])]
    /\ UNCHANGED <<args, stack, ret, calls, sim>>

\* lines 222-236: the clarification message is rewritten when a key is
\* configured, the result is reported, and the code of a success is kept
AppendResult ==
    /\ InBatch("append")
    /\ \E message \in IF batch.result[1].needs_clarification # None
                      THEN try_llm_help(batch.has_key,
                                        batch.result[1].needs_clarification[1].message)
                      ELSE {""} :
        LET r == batch.result[1]
            result == IF r.needs_clarification # None /\ batch.has_key
                      THEN [r EXCEPT !.needs_clarification[1].message = message]
                      ELSE r
            contributes == result.success /\ result.python_code \notin {None, Some("")}
        IN batch' = [batch EXCEPT
               !.pc = "loop",
               !.i = @ + 1,
               !.result = None,
               !.results = Append(@, result_to_schema(batch.command, result)),
               !.python_codes = IF contributes THEN Append(@, result.python_code[1])
                                ELSE @,
               !.uses_multitask = IF contributes /\ result.command_type = Some("multitask")
                                  THEN TRUE ELSE @]
    /\ UNCHANGED <<args, stack, ret, calls, sim>>

\* lines 238-248: the program is generated from the kept codes
GenerateProgram ==
    /\ InBatch("loop")
    /\ batch.i > Len(batch.commands)
    /\ batch' = [batch EXCEPT
           !.pc = "done",
           !.program = Some(generate_full_program(batch.config, batch.python_codes,
                                                  batch.uses_multitask))]
    /\ UNCHANGED <<args, stack, ret, calls, sim>>

BatchInit ==
    /\ batch \in {ParseCommands(request, has_key) :
                      request \in ParseRequests, has_key \in BOOLEAN}
    /\ args = None
    /\ stack = <<>>
    /\ ret = None
    /\ calls = {}
    /\ sim = None

BatchNext ==
    \/ NextCommand
    \/ Next
    \/ TryLlmParse
    \/ AppendResult
    \/ GenerateProgram

BatchSpec == BatchInit /\ [][BatchNext]_vars

(***************************************************************************)
(* Properties of the /parse pipeline                                       *)
(***************************************************************************)
BatchDone == batch # None /\ batch.pc = "done"

\* the result parse_commands ends with for the k-th parsed command, before
\* the clarification message is rewritten
FinalOf(k) ==
    LET e == batch.log[k]
    IN IF e.attempted /\ e.llm[1].success THEN e.llm[1] ELSE e.rule

\* the indices of the parsed commands that have been reported
Reported == IF batch = None THEN {} ELSE 1..Len(batch.results)

IsSuccessful(k) == FinalOf(k).success

HasCode(k) == FinalOf(k).success /\ FinalOf(k).python_code \notin {None, Some("")}

RECURSIVE CodesOf(_, _)
\* the codes, in order, of the parsed commands k..Len(log) that are
\* successful (and, with nonempty, have a non-empty code)
CodesOf(k, nonempty) ==
    IF k > Len(batch.log) THEN <<>>
    ELSE IF (IF nonempty THEN HasCode(k) ELSE IsSuccessful(k))
    THEN <<FinalOf(k).python_code[1]>> \o CodesOf(k + 1, nonempty)
    ELSE CodesOf(k + 1, nonempty)

\* C11: every command whose rule-based result is flagged needs_llm leads to
\* a fallback attempt; when the attempt succeeds its code replaces the
\* rule-based result and is among the codes of the program; when it fails
\* the rule-based result is reported, with status 'needs_llm', and no code
\* of the program comes from the command.
C11_LlmFallback ==
    \A k \in Reported :
        LET e == batch.log[k]
            reported == batch.results[k]
        IN /\ e.rule.needs_llm => e.attempted
           /\ (e.attempted /\ e.llm[1].success)
                  => /\ reported = result_to_schema(e.command, e.llm[1])
                     /\ reported.status = "parsed"
           /\ (e.attempted /\ ~e.llm[1].success)
                  => /\ reported = result_to_schema(e.command, e.rule)
                     /\ reported.status = "needs_llm"
                     /\ reported.python_code = None
                     /\ ~HasCode(k)

Placeholder == "# Add your commands here\npass"

\* C12 as stated: the main section is the newline-join of the codes of the
\* commands whose final result is successful, and the placeholder when no
\* command is successful.
C12_MainJoinsSuccesses ==
    BatchDone =>
        batch.program[1].main =
            IF CodesOf(1, FALSE) = <<>> THEN Placeholder
            ELSE str_join("\n", CodesOf(1, FALSE))

RECURSIVE NonBlank(_)
\* the stripped commands of a list, without the blank ones
NonBlank(commands) ==
    IF commands = <<>> THEN <<>>
    ELSE IF str_strip(Head(commands)) = "" THEN NonBlank(Tail(commands))
    ELSE <<str_strip(Head(commands))>> \o NonBlank(Tail(commands))

IsPrefix(s, t) == Len(s) <= Len(t) /\ s = SubSeq(t, 1, Len(s))

\* the reported results are those of the non-blank commands read so far, in
\* order, each one determined by its own command: the rule-based result is
\* that of parse_command on the stripped command, whatever the batch
C12_ReportedInOrder ==
    batch # None =>
        /\ Len(batch.results) <= Len(batch.log)
        /\ [k \in DOMAIN batch.log |-> batch.log[k].command]
               = NonBlank(SubSeq(batch.commands, 1,
                                 IF batch.pc = "append" THEN batch.i
                                 ELSE batch.i - 1))
        /\ \A k \in Reported :
               LET e == batch.log[k]
                   reported == batch.results[k]
               IN /\ reported.original = e.command
                  /\ [reported EXCEPT !.clarification = None]
                         = [result_to_schema(e.command, FinalOf(k))
                                EXCEPT !.clarification = None]
                  /\ \A c \in calls :
                         (c.depth = 1 /\ c.input_str = e.command) => c.result = e.rule
                  /\ \E c \in calls : c.depth = 1 /\ c.input_str = e.command
        /\ BatchDone =>
               /\ batch.python_codes = CodesOf(1, TRUE)
               /\ batch.program[1].main =
                      IF CodesOf(1, TRUE) = <<>> THEN Placeholder
                      ELSE str_join("\n", CodesOf(1, TRUE))

\* C12 (amended): the main section is the newline-join, in the original
\* order, of the codes of the commands whose final result is successful
\* with a non-empty code, and the placeholder when there is none; failed,
\* clarification and blank commands contribute nothing; a result, once
\* reported, is never changed by the commands after it and depends on its
\* own command only.
C12_BatchOrder ==
    [][/\ C12_ReportedInOrder'
       /\ batch # None => IsPrefix(batch.results, batch'.results)]_vars

\* a finished batch with a blank command, a clarification, a failure, and
\* several codes in the main section
C12_Witness ==
    /\ BatchDone
    /\ Len(batch.python_codes) >= 3
    /\ Len(batch.log) < Len(batch.commands)
    /\ \E k \in Reported : batch.results[k].status = "needs_clarification"
    /\ \E k \in Reported : batch.results[k].status = "needs_llm"

(***************************************************************************)
(* The preview simulator (preview.py)                                      *)
(*                                                                         *)
(* Floats are exact rationals [n, d] in lowest terms with d > 0: the       *)
(* arithmetic is that of the reals, without the rounding of the machine.   *)
(***************************************************************************)
RECURSIVE Gcd(_, _)
Gcd(a, b) == IF b = 0 THEN a ELSE Gcd(b, a % b)

Rat(n, d) ==
    LET s == IF d < 0 THEN -1 ELSE 1
        g == Gcd(IF n < 0 THEN -n ELSE n, IF d < 0 THEN -d ELSE d)
    IN [n |-> (s * n) \div g, d |-> (s * d) \div g]

Num(k) == [n |-> k, d |-> 1]

RAdd(a, b) == Rat(a.n * b.d + b.n * a.d, a.d * b.d)

RSub(a, b) == Rat(a.n * b.d - b.n * a.d, a.d * b.d)

RMul(a, b) == Rat(a.n * b.n, a.d * b.d)

RDiv(a, b) == Rat(a.n * b.d, a.d * b.n)

RLe(a, b) == a.n * b.d <= b.n * a.d

RLt(a, b) == a.n * b.d < b.n * a.d

RAbs(a) == IF a.n < 0 THEN [a EXCEPT !.n = -a.n] ELSE a

\* a % 360 of Python: the result has the sign of the divisor
RMod360(a) == Rat(a.n % (360 * a.d), a.d)

\* math.cos(math.radians(a)) and math.sin(math.radians(a)), for the headings
\* that are multiples of 90 degrees
cos_deg(a) ==
    CASE RMod360(a) = Num(0) -> Num(1)
      [] RMod360(a) = Num(90) -> Num(0)
      [] RMod360(a) = Num(180) -> Num(-1)
      [] RMod360(a) = Num(270) -> Num(0)

sin_deg(a) ==
    CASE RMod360(a) = Num(0) -> Num(0)
      [] RMod360(a) = Num(90) -> Num(1)
      [] RMod360(a) = Num(180) -> Num(0)
      [] RMod360(a) = Num(270) -> Num(-1)

SCALE_MM_TO_PX == Rat(1, 2)

PreviewPoint(x, y, angle, timestamp) == [x |-> x, y |-> y, angle |-> angle, timestamp |-> timestamp]

PreviewSegment(type, start_point, end_point, command) == [type |-> type, start_point |-> start_point, end_point |-> end_point, command |-> command]

CalculatedPreviewPath(segments, total_time, end_position) == [segments |-> segments, total_time |-> total_time, end_position |-> end_position]

normalize_angle(angle) ==
    LET normalized == RMod360(angle)
    IN IF RLt(normalized, Num(0)) THEN RAdd(normalized, Num(360)) ELSE normalized

\* the interpolation along the raw difference, without the wraparound
interpolate_angle_raw(start, end, progress) ==
    normalize_angle(RAdd(start, RMul(RSub(end, start), progress)))

\* lines 48-55
interpolate_angle(start, end, progress) ==
    LET diff0 == RSub(end, start)
        diff1 == IF RLt(Num(180), diff0) THEN RSub(diff0, Num(360)) ELSE diff0
        diff == IF RLt(diff1, Num(-180)) THEN RAdd(diff1, Num(360)) ELSE diff1
    IN normalize_angle(RAdd(start, RMul(diff, progress)))

\* pattern.search(command) for a pattern made of a literal prefix, a number
\* (signed or not) and a closing parenthesis: <<>> or <<group(1)>> of the
\* leftmost match
RECURSIVE Search(_, _, _)
Search(prefix, signed, command) ==
    IF Len(command) < Len(prefix) THEN None
    ELSE LET rest == str_from(command, Len(prefix))
             len == IF ~signed /\ str_startswith(rest, "-") THEN 0 ELSE NumberLenAt(rest)
         IN IF str_startswith(command, prefix) /\ len > 0
               /\ str_startswith(str_from(rest, len), ")")
            THEN Some(SubSeq(rest, 1, len))
            ELSE Search(prefix, signed, Tail(command))

STRAIGHT_PATTERN(command) == Search("robot.straight(", TRUE, command)

TURN_PATTERN(command) == Search("robot.turn(", TRUE, command)

WAIT_PATTERN(command) == Search("wait(", FALSE, command)

ToRat(x) == Rat(x.n, x.d)

\* a straight whose divisor is the speed itself unless it is zero
calculate_straight_segment_signed(start_point, distance, speed, command) ==
    LET speed_per_second == IF speed # Num(0) THEN speed ELSE Num(1)
        angle_deg == RSub(start_point.angle, Num(90))
        dx == RMul(RMul(distance, SCALE_MM_TO_PX), cos_deg(angle_deg))
        dy == RMul(RMul(distance, SCALE_MM_TO_PX), sin_deg(angle_deg))
        time_ms == RMul(RDiv(RAbs(distance), speed_per_second), Num(1000))
        end_point == PreviewPoint(RAdd(start_point.x, dx), RAdd(start_point.y, dy),
                                  start_point.angle, RAdd(start_point.timestamp, time_ms))
    IN PreviewSegment("straight", start_point, end_point, command)

calculate_straight_segment(start_point, distance, speed, command) ==
    LET speed_per_second == IF RLt(Num(0), speed) THEN speed ELSE Num(1)
        angle_deg == RSub(start_point.angle, Num(90))
        dx == RMul(RMul(distance, SCALE_MM_TO_PX), cos_deg(angle_deg))
        dy == RMul(RMul(distance, SCALE_MM_TO_PX), sin_deg(angle_deg))
        time_ms == RMul(RDiv(RAbs(distance), speed_per_second), Num(1000))
        end_point == PreviewPoint(RAdd(start_point.x, dx), RAdd(start_point.y, dy),
                                  start_point.angle, RAdd(start_point.timestamp, time_ms))
    IN PreviewSegment("straight", start_point, end_point, command)

\* a turn that also moves the robot
calculate_turn_segment_moved(start_point, angle, turn_rate, command) ==
    PreviewSegment("turn", start_point,
                   [start_point EXCEPT !.x = RAdd(@, Num(1)),
                                       !.angle = normalize_angle(RAdd(@, angle))],
                   command)

calculate_turn_segment(start_point, angle, turn_rate, command) ==
    LET degrees_per_second == IF RLt(Num(0), turn_rate) THEN turn_rate ELSE Num(1)
        time_ms == RMul(RDiv(RAbs(angle), degrees_per_second), Num(1000))
        end_point == PreviewPoint(start_point.x, start_point.y,
                                  normalize_angle(RAdd(start_point.angle, angle)),
                                  RAdd(start_point.timestamp, time_ms))
    IN PreviewSegment("turn", start_point, end_point, command)

calculate_wait_segment(start_point, duration, command) ==
    PreviewSegment("wait", start_point,
                   [start_point EXCEPT !.timestamp = RAdd(@, duration)], command)

\* the patterns tried in the order wait, turn, straight
parse_command_to_segment_wait_first(command, start_point, speed, turn_rate) ==
    LET straight_match == STRAIGHT_PATTERN(command)
        turn_match == TURN_PATTERN(command)
        wait_match == WAIT_PATTERN(command)
    IN IF wait_match # None
       THEN Some(calculate_wait_segment(start_point, ToRat(float(wait_match[1])), command))
       ELSE IF turn_match # None
       THEN Some(calculate_turn_segment(start_point, ToRat(float(turn_match[1])),
                                        turn_rate, command))
       ELSE IF straight_match # None
       THEN Some(calculate_straight_segment(start_point, ToRat(float(straight_match[1])),
                                            speed, command))
       ELSE None

\* lines 96-115; <<>> for None
parse_command_to_segment(command, start_point, speed, turn_rate) ==
    LET straight_match == STRAIGHT_PATTERN(command)
        turn_match == TURN_PATTERN(command)
        wait_match == WAIT_PATTERN(command)
    IN IF straight_match # None
       THEN Some(calculate_straight_segment(start_point, ToRat(float(straight_match[1])),
                                            speed, command))
       ELSE IF turn_match # None
       THEN Some(calculate_turn_segment(start_point, ToRat(float(turn_match[1])),
                                        turn_rate, command))
       ELSE IF wait_match # None
       THEN Some(calculate_wait_segment(start_point, ToRat(float(wait_match[1])), command))
       ELSE None

RMin(a, b) == IF RLe(a, b) THEN a ELSE b

RMax(a, b) == IF RLe(a, b) THEN b ELSE a

\* the point of a segment at a progress in [0, 1]
SegmentPoint(segment, progress, timestamp) ==
    PreviewPoint(
        RAdd(segment.start_point.x,
             RMul(RSub(segment.end_point.x, segment.start_point.x), progress)),
        RAdd(segment.start_point.y,
             RMul(RSub(segment.end_point.y, segment.start_point.y), progress)),
        interpolate_angle(segment.start_point.angle, segment.end_point.angle, progress),
        timestamp)

Contains(segment, timestamp) ==
    /\ RLe(segment.start_point.timestamp, timestamp)
    /\ RLe(timestamp, segment.end_point.timestamp)

\* the answer taken from the last segment that holds the timestamp
get_position_at_time_last(path, timestamp) ==
    IF path.segments = <<>> THEN PreviewPoint(Num(0), Num(0), Num(0), Num(0))
    ELSE IF \E k \in DOMAIN path.segments : Contains(path.segments[k], timestamp)
    THEN SegmentPoint(path.segments[SetMax({k \in DOMAIN path.segments :
                                               Contains(path.segments[k], timestamp)})],
                      Num(1), timestamp)
    ELSE path.end_position

get_position_at_time(path, timestamp) ==
    LET hits == {k \in DOMAIN path.segments : Contains(path.segments[k], timestamp)}
        segment == path.segments[SetMin(hits)]
        duration == RSub(segment.end_point.timestamp, segment.start_point.timestamp)
        progress0 == IF duration = Num(0) THEN Num(1)
                     ELSE RDiv(RSub(timestamp, segment.start_point.timestamp), duration)
        progress == RMin(RMax(progress0, Num(0)), Num(1))
    IN IF path.segments = <<>> THEN PreviewPoint(Num(0), Num(0), Num(0), Num(0))
       ELSE IF hits # {} THEN SegmentPoint(segment, progress, timestamp)
       ELSE path.end_position

\* the points of one segment for index = index..points_per_segment
RECURSIVE SegmentSamples(_, _, _)
SegmentSamples(segment, points_per_segment, index) ==
    IF index > points_per_segment THEN <<>>
    ELSE LET duration == RSub(segment.end_point.timestamp, segment.start_point.timestamp)
             progress == Rat(index, points_per_segment)
             timestamp == RAdd(segment.start_point.timestamp, RMul(duration, progress))
         IN <<SegmentPoint(segment, progress, timestamp)>>
                \o SegmentSamples(segment, points_per_segment, index + 1)

RECURSIVE SamplesFrom(_, _, _)
SamplesFrom(segments, points_per_segment, first) ==
    IF segments = <<>> THEN <<>>
    ELSE SegmentSamples(Head(segments), points_per_segment, first)
             \o SamplesFrom(Tail(segments), points_per_segment, first)

\* the samples without the start point of each segment
generate_path_points_open(path, points_per_segment) ==
    IF points_per_segment <= 0 THEN <<>>
    ELSE SamplesFrom(path.segments, points_per_segment, 1)

generate_path_points(path, points_per_segment) ==
    IF points_per_segment <= 0 THEN <<>>
    ELSE SamplesFrom(path.segments, points_per_segment, 0)

(***************************************************************************)
(* calculate_path as a state machine, the preview endpoint around it, and  *)
(* the two functions that read a finished path                             *)
(*                                                                         *)
(* sim is the activation: the arguments, the loop position, the locals of  *)
(* calculate_path, the path it returned and the last value read from it.   *)
(***************************************************************************)
MaxCommands == 2

PreviewCommands ==
    {"robot.straight(100)", "robot.straight(-50.5)", "robot.turn(90)", "robot.turn(-180)",
     "robot.turn(270)", "wait(500)", "wait(0)", "hub.speaker.beep()",
     "await wait(250)  # then robot.turn(90)", "robot.turn(45); robot.straight(10)"}

RECURSIVE PreviewLists(_)
PreviewLists(k) ==
    IF k = 0 THEN {<<>>}
    ELSE {Append(l, c) : l \in PreviewLists(k - 1), c \in PreviewCommands}

\* start positions: the origin, a point with a heading above 360 and a
\* timestamp, a point with a negative heading
StartPositions ==
    {PreviewPoint(Num(0), Num(0), Num(0), Num(0)),
     PreviewPoint(Num(10), Num(20), Num(450), Num(500)),
     PreviewPoint(Num(0), Num(0), Num(-90), Num(0))}

\* <<speed, turn_rate>>
Defaults == {<<Num(200), Num(150)>>, <<Num(0), Num(0)>>, <<Num(-5), Num(-3)>>}

PointCounts == {-1, 0, 1, 2, 3}

Activation(via, commands, start_position, defaults, points_per_segment) ==
    [via |-> via, commands |-> commands, start_position |-> start_position,
     speed |-> defaults[1], turn_rate |-> defaults[2],
     points_per_segment |-> points_per_segment,
     pc |-> IF via = "endpoint" THEN "request" ELSE "loop",
     i |-> 1, segments |-> <<>>, current_position |-> start_position,
     total_time |-> Num(0), path |-> None, out |-> None, status |-> 0]

\* a straight, a turn, a wait, a line that is no movement, a straight
CoverPath ==
    <<"robot.straight(100)", "robot.turn(90)", "wait(500)", "hub.speaker.beep()",
      "robot.straight(-50.5)">>

PreviewCalls ==
    {Activation("direct", l, p, d, 0) :
        l \in UNION {PreviewLists(k) : k \in 0..MaxCommands} \cup {CoverPath},
        p \in StartPositions, d \in Defaults}
    \cup {Activation("endpoint", l, p, d, n) :
        l \in PreviewLists(0) \cup PreviewLists(1),
        p \in StartPositions, d \in Defaults, n \in {1, 2}}

InSim(pc) == sim # None /\ sim.pc = pc

\* PreviewPathRequest and its parts: what the request boundary accepts
ValidRequest(s) ==
    /\ Len(s.commands) \in 1..500
    /\ RLe(Num(0), s.start_position.timestamp)
    /\ RLt(Num(0), s.speed)
    /\ RLt(Num(0), s.turn_rate)
    /\ s.points_per_segment \in 2..200

\* POST /preview: the request is validated before the handler runs
Validate ==
    /\ InSim("request")
    /\ sim' = IF ValidRequest(sim) THEN [sim EXCEPT !.pc = "loop"]
              ELSE [sim EXCEPT !.pc = "rejected", !.status = 422]
    /\ UNCHANGED <<args, stack, ret, calls, batch>>

\* lines 75-78 with the timestamps left as the calculator made them
Rebase_kept(segment, total_time) == segment

\* lines 75-78: the timestamps of the segment are moved onto the running total
Rebase(segment, total_time) ==
    LET duration == RSub(segment.end_point.timestamp, segment.start_point.timestamp)
    IN [segment EXCEPT !.start_point.timestamp = total_time,
                       !.end_point.timestamp = RAdd(total_time, duration)]

\* one iteration of the loop of calculate_path
PathStep ==
    /\ InSim("loop")
    /\ sim.i <= Len(sim.commands)
    /\ LET segment == parse_command_to_segment(sim.commands[sim.i], sim.current_position,
                                               sim.speed, sim.turn_rate)
           rebased == Rebase(segment[1], sim.total_time)
       IN sim' = IF segment = None THEN [sim EXCEPT !.i = @ + 1]
                 ELSE [sim EXCEPT !.i = @ + 1,
                                  !.segments = Append(@, rebased),
                                  !.total_time = rebased.end_point.timestamp,
                                  !.current_position = rebased.end_point]
    /\ UNCHANGED <<args, stack, ret, calls, batch>>

\* return CalculatedPreviewPath(...)
PathReturn ==
    /\ InSim("loop")
    /\ sim.i > Len(sim.commands)
    /\ sim' = [sim EXCEPT
           !.pc = IF sim.via = "endpoint" THEN "points" ELSE "path",
           !.path = Some(CalculatedPreviewPath(sim.segments, sim.total_time,
                                               sim.current_position))]
    /\ UNCHANGED <<args, stack, ret, calls, batch>>

\* calculate_preview_path_response: the points of the response
Respond ==
    /\ InSim("points")
    /\ sim' = [sim EXCEPT
           !.pc = "responded",
           !.status = 200,
           !.out = Some([op |-> "points", n |-> sim.points_per_segment,
                         points |-> generate_path_points(sim.path[1],
                                                         sim.points_per_segment)])]
    /\ UNCHANGED <<args, stack, ret, calls, batch>>

\* the timestamps asked for: the ends and the middle of every segment, one
\* before the path and one after it
QueryTimes(path) ==
    {Num(-1), RAdd(path.total_time, Num(1))}
    \cup UNION {{path.segments[k].start_point.timestamp,
                 path.segments[k].end_point.timestamp,
                 RDiv(RAdd(path.segments[k].start_point.timestamp,
                           path.segments[k].end_point.timestamp), Num(2))} :
                    k \in DOMAIN path.segments}

\* a call of get_position_at_time on the returned path
GetPositionAtTime ==
    /\ InSim("path")
    /\ \E timestamp \in QueryTimes(sim.path[1]) :
           sim' = [sim EXCEPT
                      !.pc = "read",
                      !.out = Some([op |-> "position", timestamp |-> timestamp,
                                    point |-> get_position_at_time(sim.path[1],
                                                                   timestamp)])]
    /\ UNCHANGED <<args, stack, ret, calls, batch>>

\* a call of generate_path_points on the returned path
GeneratePathPoints ==
    /\ InSim("path")
    /\ \E n \in PointCounts :
           sim' = [sim EXCEPT
                      !.pc = "read",
                      !.out = Some([op |-> "points", n |-> n,
                                    points |-> generate_path_points(sim.path[1], n)])]
    /\ UNCHANGED <<args, stack, ret, calls, batch>>

PreviewInit ==
    /\ sim \in PreviewCalls
    /\ args = None
    /\ stack = <<>>
    /\ ret = None
    /\ calls = {}
    /\ batch = None

PreviewNext ==
    \/ Validate
    \/ PathStep
    \/ PathReturn
    \/ Respond
    \/ GetPositionAtTime
    \/ GeneratePathPoints

PreviewSpec == PreviewInit /\ [][PreviewNext]_vars

(***************************************************************************)
(* Properties of the preview simulator                                     *)
(***************************************************************************)
Returned == sim # None /\ sim.path # None

Duration(segment) == RSub(segment.end_point.timestamp, segment.start_point.timestamp)

RECURSIVE SumDurations(_)
SumDurations(segments) ==
    IF segments = <<>> THEN Num(0)
    ELSE RAdd(Duration(Head(segments)), SumDurations(Tail(segments)))

\* C13: in the path returned by calculate_path the first segment starts at
\* timestamp 0, every later segment starts at the end timestamp of the one
\* before, no segment ends before it starts, total_time is the sum of the
\* durations and the end timestamp of the last segment (0 without segments),
\* and end_position is the end point of the last segment, or the start
\* position when no command matched; whatever the timestamp of the start.
C13_TimeAccounting ==
    Returned =>
        LET path == sim.path[1]
            segments == path.segments
            last == segments[Len(segments)]
        IN /\ segments # <<>> => segments[1].start_point.timestamp = Num(0)
           /\ \A k \in 2..Len(segments) :
                  segments[k].start_point.timestamp = segments[k - 1].end_point.timestamp
           /\ \A k \in DOMAIN segments :
                  RLe(segments[k].start_point.timestamp, segments[k].end_point.timestamp)
           /\ path.total_time = SumDurations(segments)
           /\ path.total_time = IF segments = <<>> THEN Num(0) ELSE last.end_point.timestamp
           /\ path.end_position = IF segments = <<>> THEN sim.start_position
                                  ELSE last.end_point

\* a returned path of several segments whose start had a timestamp, with a
\* command that matched nothing
C13_Witness ==
    /\ Returned
    /\ sim.start_position.timestamp # Num(0)
    /\ Len(sim.path[1].segments) >= 3
    /\ Len(sim.path[1].segments) < Len(sim.commands)

SamePlace(p, q) == p.x = q.x /\ p.y = q.y

\* C14: in the returned path a straight keeps the angle, a turn keeps x and
\* y, a wait keeps x, y and the angle, and every segment starts, in x, y and
\* angle, where the one before ended (the first at the start position).
C14_SegmentFrames ==
    Returned =>
        LET segments == sim.path[1].segments
        IN \A k \in DOMAIN segments :
               LET segment == segments[k]
                   before == IF k = 1 THEN sim.start_position
                             ELSE segments[k - 1].end_point
               IN /\ segment.type = "straight"
                         => segment.end_point.angle = segment.start_point.angle
                  /\ segment.type = "turn"
                         => SamePlace(segment.end_point, segment.start_point)
                  /\ segment.type = "wait"
                         => /\ SamePlace(segment.end_point, segment.start_point)
                            /\ segment.end_point.angle = segment.start_point.angle
                  /\ SamePlace(segment.start_point, before)
                  /\ segment.start_point.angle = before.angle

\* a returned path with a segment of each type, the straight one moving the
\* robot and the turn one changing its heading
C14_Witness ==
    /\ Returned
    /\ \A type \in {"straight", "turn", "wait"} :
           \E k \in DOMAIN sim.path[1].segments : sim.path[1].segments[k].type = type
    /\ \E k \in DOMAIN sim.path[1].segments :
           LET segment == sim.path[1].segments[k]
           IN segment.type = "straight" /\ ~SamePlace(segment.end_point, segment.start_point)
    /\ \E k \in DOMAIN sim.path[1].segments :
           LET segment == sim.path[1].segments[k]
           IN segment.type = "turn" /\ segment.end_point.angle # segment.start_point.angle

Normalized(point) == RLe(Num(0), point.angle) /\ RLt(point.angle, Num(360))

\* C15: every point the simulator produces has its angle in [0, 360): the
\* start and end points of the segments and the end_position of a returned
\* path, the point returned by get_position_at_time and the points returned
\* by generate_path_points, for every start position.
C15_HeadingNormalized ==
    /\ Returned =>
           /\ \A k \in DOMAIN sim.path[1].segments :
                  /\ Normalized(sim.path[1].segments[k].start_point)
                  /\ Normalized(sim.path[1].segments[k].end_point)
           /\ Normalized(sim.path[1].end_position)
    /\ (sim # None /\ sim.out # None) =>
           IF sim.out[1].op = "position" THEN Normalized(sim.out[1].point)
           ELSE \A j \in DOMAIN sim.out[1].points : Normalized(sim.out[1].points[j])

PositionRead == sim # None /\ sim.out # None /\ sim.out[1].op = "position"

Hits(path, timestamp) == {k \in DOMAIN path.segments : Contains(path.segments[k], timestamp)}

\* the linear interpolation of a coordinate at a progress
Lerp(a, b, progress) == RAdd(a, RMul(RSub(b, a), progress))

\* C16: get_position_at_time(path, t) on an empty path is the zero point;
\* on a non-empty path, for t in the closed interval of some segment it has
\* timestamp t and the x and y interpolated linearly in the first such
\* segment (progress 1 for a segment of zero duration); t is in no segment
\* exactly when t < 0 or t > total_time, and the result is then the end
\* position of the path.
C16_PositionAtTime ==
    PositionRead =>
        LET path == sim.path[1]
            t == sim.out[1].timestamp
            point == sim.out[1].point
            hits == Hits(path, t)
            segment == path.segments[SetMin(hits)]
            progress == IF Duration(segment) = Num(0) THEN Num(1)
                        ELSE RDiv(RSub(t, segment.start_point.timestamp), Duration(segment))
        IN IF path.segments = <<>>
           THEN point = PreviewPoint(Num(0), Num(0), Num(0), Num(0))
           ELSE /\ hits = {} <=> (RLt(t, Num(0)) \/ RLt(path.total_time, t))
                /\ hits = {} => point = path.end_position
                /\ hits # {} =>
                       /\ point.timestamp = t
                       /\ point.x = Lerp(segment.start_point.x, segment.end_point.x, progress)
                       /\ point.y = Lerp(segment.start_point.y, segment.end_point.y, progress)

\* a read strictly inside a straight segment that moved the robot, in a
\* path of several segments
C16_Witness ==
    /\ PositionRead
    /\ \E k \in Hits(sim.path[1], sim.out[1].timestamp) :
           /\ sim.path[1].segments[k].type = "straight"
           /\ RLt(sim.path[1].segments[k].start_point.timestamp, sim.out[1].timestamp)
           /\ RLt(sim.out[1].timestamp, sim.path[1].segments[k].end_point.timestamp)
    /\ sim.out[1].point.y # sim.start_position.y
    /\ Len(sim.path[1].segments) >= 2

PointsRead == sim # None /\ sim.out # None /\ sim.out[1].op = "points"

\* C17: generate_path_points(path, n) for n >= 1 returns n + 1 points per
\* segment in segment order; the first point of a segment has its start
\* timestamp, x and y and the last its end timestamp, x and y, so the first
\* point of all has timestamp 0 and the last total_time, and the timestamps
\* never decrease; for n <= 0 it returns no point.
C17_PathPoints ==
    PointsRead =>
        LET path == sim.path[1]
            n == sim.out[1].n
            points == sim.out[1].points
        IN IF n <= 0 THEN points = <<>>
           ELSE /\ Len(points) = (n + 1) * Len(path.segments)
                /\ \A k \in DOMAIN path.segments :
                       LET first == points[(k - 1) * (n + 1) + 1]
                           last == points[k * (n + 1)]
                           segment == path.segments[k]
                       IN /\ first.timestamp = segment.start_point.timestamp
                          /\ SamePlace(first, segment.start_point)
                          /\ last.timestamp = segment.end_point.timestamp
                          /\ SamePlace(last, segment.end_point)
                /\ points # <<>> =>
                       /\ points[1].timestamp = Num(0)
                       /\ points[Len(points)].timestamp = path.total_time
                /\ \A j \in 2..Len(points) :
                       RLe(points[j - 1].timestamp, points[j].timestamp)

\* points of a path of several segments, with n of at least 2
C17_Witness ==
    /\ PointsRead
    /\ sim.out[1].n >= 2
    /\ Len(sim.path[1].segments) >= 2
    /\ Len(sim.out[1].points) >= 6

Argument(pattern_match) == ToRat(float(pattern_match[1]))

\* C18: a preview request whose speed or turn_rate is not positive is
\* rejected with status 422 before calculate_path runs; and when the
\* simulator is called with speed <= 0 (turn_rate <= 0) a straight of
\* distance d lasts |d| * 1000 ms (a turn of angle a lasts |a| * 1000 ms),
\* and no duration is negative.
C18_ZeroRateGuard ==
    sim # None =>
        /\ (sim.via = "endpoint" /\ (RLe(sim.speed, Num(0)) \/ RLe(sim.turn_rate, Num(0))))
               => /\ sim.pc \in {"request", "rejected"}
                  /\ sim.pc = "rejected" => sim.status = 422
                  /\ sim.i = 1 /\ sim.segments = <<>> /\ sim.path = None
        /\ \A k \in DOMAIN sim.segments :
               LET segment == sim.segments[k]
               IN /\ RLe(Num(0), Duration(segment))
                  /\ (segment.type = "straight" /\ RLe(sim.speed, Num(0)))
                         => Duration(segment)
                                = RMul(RAbs(Argument(STRAIGHT_PATTERN(segment.command))),
                                       Num(1000))
                  /\ (segment.type = "turn" /\ RLe(sim.turn_rate, Num(0)))
                         => Duration(segment)
                                = RMul(RAbs(Argument(TURN_PATTERN(segment.command))),
                                       Num(1000))

\* the simulator called with a negative speed and turn rate has returned a
\* path with a straight and a turn
C18_Witness ==
    /\ Returned
    /\ sim.via = "direct"
    /\ RLt(sim.speed, Num(0)) /\ RLt(sim.turn_rate, Num(0))
    /\ \A type \in {"straight", "turn"} :
           \E k \in DOMAIN sim.path[1].segments : sim.path[1].segments[k].type = type

(***************************************************************************)
(* Properties of the recognizers, continued                                *)
(***************************************************************************)
\* C21: 'move forward <d>mm at <s>' compiles to robot.settings(straight_speed=s)
\* followed by robot.straight(d), and 'turn left <a> at <r>' to
\* robot.settings(turn_rate=r) followed by robot.turn(-a), also when s equals
\* d (r equals a).
C21_SpeedOverride ==
    \A c \in calls :
        \A d \in {"100", "200"}, v \in {"200", "300"}, a \in {"45", "90"}, r \in {"90", "50"} :
            /\ c.input_str = "move forward " \o d \o "mm at " \o v
                   => c.result.python_code
                          = Some("robot.settings(straight_speed=" \o v
                                 \o ")\nrobot.straight(" \o d \o ")")
            /\ c.input_str = "turn left " \o a \o " at " \o r
                   => c.result.python_code
                          = Some("robot.settings(turn_rate=" \o r
                                 \o ")\nrobot.turn(-" \o a \o ")")

\* the calls answered by the repeat recognizer for a sentence with a count
RepeatCalls == {c \in calls : c.by \in {"repeat", "repeat_join"} /\ HasNumber(c.tokens)}

\* the sub-parses a call started: the finished calls one level deeper on text
SubCallsOn(c, text) == {s \in calls : s.depth = c.depth + 1 /\ s.input_str = text}

\* C22: for a sentence with a repeat token and a count N the repeat
\* recognizer emits 'for i in range(N):' with N the integer part of the
\* number, N = 0 included; the body is the indented code of the action
\* clause after the first delimiter among 'times:', 'times :', ': ', ':',
\* and the placeholder body when there is no action clause.
C22_LoopCount ==
    \A c \in RepeatCalls :
        LET n == FirstOfType(c.tokens, "number").numeric_value
            head == "for i in range(" \o IntToStr(IntOf(n, 1)) \o "):\n    "
            action == RepeatAction(c.input_str)
        IN /\ c.result.success
           /\ str_startswith(c.result.python_code[1], head)
           /\ action = "" => c.result.python_code[1] = head \o "# Add commands here\n    pass"
           /\ \A s \in SubCallsOn(c, action) :
                  (action # "" /\ s.result.success)
                      => c.result.python_code[1] = head \o Indent(s.result.python_code[1])


\* the word is an entry of one of the lexicons classify_word looks words up in
InLexicon(word) ==
    \/ \E k \in DOMAIN CATEGORIES : InList(word, CATEGORIES[k][1])
    \/ \E lexicon \in {ALL_VERBS, ALL_DIRECTIONS, ALL_UNITS, COLORS, MOTOR_WORDS, SPEED_WORDS} :
           InList(word, lexicon)

\* C23: the fuzzy fallback is length-gated: a word of fewer than 4 characters
\* that is in no lexicon (such as 'and', '<' or '>') is classified as a generic
\* 'word' token, never as a unit or a color (nor as anything else).
C23_FuzzyLengthGate ==
    \A c \in calls :
        \A k \in DOMAIN c.tokens :
            LET t == c.tokens[k]
            IN (t.type # "number" /\ Len(t.value) < 4 /\ ~InLexicon(t.value))
                   => t.type = "word"


\* C29: the body of 'repeat N times: A' is the code of A parsed under the
\* caller's own configuration and motor names, indented one level.  The motor
\* recognizer is the one whose code depends on the configuration: when A is a
\* motor command, the body is the motor code computed with the caller's
\* motor_speed, the same as for A outside the loop.
C29_LoopBodyEquivalence ==
    \A c \in RepeatCalls :
        LET n == FirstOfType(c.tokens, "number").numeric_value
            head == "for i in range(" \o IntToStr(IntOf(n, 1)) \o "):\n    "
            action == RepeatAction(c.input_str)
            own == try_parse_motor(tokenize(action), c.config, c.motor_names)
        IN \A s \in SubCallsOn(c, action) :
               (s.result.success /\ s.result.command_type = Some("motor"))
                   => c.result.python_code = Some(head \o Indent(own[1].python_code[1]))


MultitaskCalls == {c \in calls : c.by = "multitask_join"}

\* the lines of code that are statements: neither blank nor a comment
Statements(code) ==
    {l \in {str_strip(line) : line \in Range(str_split(code, "\n"))} :
        l # "" /\ ~str_startswith(l, "#")}

\* the calls at the next depth on the sub-phrases that parsed successfully
ParsedParts(c, texts) ==
    {s \in UNION {SubCallsOn(c, t) : t \in texts} :
        s.result.success /\ s.result.python_code \notin {None, Some("")}}

\* C30: a repeat with a count and a multitask with two sub-phrases always
\* succeed, with no clarification request and no LLM flag, whatever their
\* sub-parses return; the text of a sub-phrase that did not parse appears only
\* as a comment, so the statements of the code are those of the scaffold and
\* of the sub-phrases that did parse.
C30_FailuresAbsorbed ==
    \A c \in RepeatCalls \cup MultitaskCalls :
        LET repeat == c \in RepeatCalls
            texts == IF repeat THEN {RepeatAction(c.input_str)} \ {""}
                     ELSE Range(MultitaskTasks(c.input_str)[1])
            scaffold == IF repeat
                        THEN {"for i in range(" \o IntToStr(RepeatCount(c.tokens)) \o "):",
                              "pass"}
                        ELSE {"async def task1():", "async def task2():",
                              "await multitask(task1(), task2())"}
            parsed == UNION {Statements(s.result.python_code[1]) : s \in ParsedParts(c, texts)}
        IN /\ c.result.success
           /\ c.result.needs_clarification = None
           /\ ~c.result.needs_llm
           /\ Statements(c.result.python_code[1]) \subseteq scaffold \cup parsed


(* Properties of the generated program *)

Program == batch.program[1]

\* the program imports DriveBase and its setup defines the drive motors and robot
DefinesRobot ==
    /\ str_contains(Program.imports, "from pybricks.robotics import DriveBase")
    /\ str_contains(Program.setup, "left_motor = Motor(")
    /\ str_contains(Program.setup, "right_motor = Motor(")
    /\ str_contains(Program.setup, "robot = DriveBase(")

\* none of the four is in the program
OmitsRobot ==
    /\ ~str_contains(Program.imports, "DriveBase")
    /\ ~str_contains(Program.setup, "left_motor")
    /\ ~str_contains(Program.setup, "right_motor")
    /\ ~str_contains(Program.setup, "robot")

\* some line of the code begins with 'robot.' or mentions a drive motor
UsesRobot(code) ==
    \/ \E line \in Range(str_split(code, "\n")) : str_startswith(str_strip(line), "robot.")
    \/ str_contains(code, "left_motor")
    \/ str_contains(code, "right_motor")

\* C24: the program has the DriveBase import and the left_motor, right_motor
\* and robot setup exactly when some line of some command code begins with
\* 'robot.' or mentions left_motor or right_motor; so a main section that calls
\* robot.<something>, be it in a loop body, in a task body or after a comment
\* line, comes with a setup that defines robot.
C24_DrivebaseAvailable ==
    BatchDone =>
        /\ (\E k \in DOMAIN batch.python_codes : UsesRobot(batch.python_codes[k])) => DefinesRobot
        /\ (\A k \in DOMAIN batch.python_codes : ~UsesRobot(batch.python_codes[k])) => OmitsRobot
        /\ UsesRobot(Program.main) => DefinesRobot

\* C25: the program is generated only after the whole batch is parsed, and its
\* tools import includes multitask exactly when some command code placed in
\* the main section invokes multitask(...); a main section with
\* 'await multitask(' always comes with the import.
C25_MultitaskImport ==
    /\ (batch.program # None => batch.i > Len(batch.commands))
    /\ BatchDone =>
           /\ str_contains(Program.imports, "multitask")
                  <=> \E k \in DOMAIN batch.python_codes :
                          str_contains(batch.python_codes[k], "multitask(")
           /\ str_contains(Program.main, "await multitask(")
                  => str_contains(Program.imports, "multitask")


\* some pattern matches somewhere in the element
Matches(command) ==
    \/ STRAIGHT_PATTERN(command) # None
    \/ TURN_PATTERN(command) # None
    \/ WAIT_PATTERN(command) # None

\* the first pattern, in the order straight, turn, wait, that matches
Kind(command) ==
    IF STRAIGHT_PATTERN(command) # None THEN "straight"
    ELSE IF TURN_PATTERN(command) # None THEN "turn"
    ELSE "wait"

\* C26: calculate_path makes at most one segment of each element of the
\* command list, of the kind of the first pattern, in the order straight,
\* turn, wait, that matches anywhere in the element; an element that matches
\* no pattern adds no segment, raises no error and leaves the running
\* position, heading and total time as they were, so that there are as many
\* segments as matching elements.
C26_LineMatching ==
    [][(sim # None /\ sim.pc = "loop" /\ sim.i <= Len(sim.commands)) =>
           LET command == sim.commands[sim.i]
               n == Len(sim.segments)
           IN /\ sim'.pc = "loop"
              /\ sim'.status = sim.status
              /\ sim'.i = sim.i + 1
              /\ IF Matches(command)
                 THEN /\ Len(sim'.segments) = n + 1
                      /\ SubSeq(sim'.segments, 1, n) = sim.segments
                      /\ sim'.segments[n + 1].type = Kind(command)
                      /\ sim'.segments[n + 1].command = command
                 ELSE /\ sim'.segments = sim.segments
                      /\ sim'.current_position = sim.current_position
                      /\ sim'.total_time = sim.total_time
              /\ Len(sim'.segments) = Len(SelectSeq(SubSeq(sim.commands, 1, sim.i), Matches))
      ]_vars

\* a returned path with a segment made of a line of two statements, the
\* second of which decided its kind, and with a line that is no movement
C26_Witness ==
    /\ Returned
    /\ Len(sim.path[1].segments) < Len(sim.commands)
    /\ \E k \in DOMAIN sim.path[1].segments :
           /\ sim.path[1].segments[k].command = "await wait(250)  # then robot.turn(90)"
           /\ sim.path[1].segments[k].type = "turn"


\* the interpolated points that were read, each with the segment it was taken
\* from and the progress it was taken at
Observed ==
    IF PositionRead /\ Hits(sim.path[1], sim.out[1].timestamp) # {}
    THEN LET segment == sim.path[1].segments[SetMin(Hits(sim.path[1], sim.out[1].timestamp))]
         IN {[segment |-> segment,
              progress |-> IF Duration(segment) = Num(0) THEN Num(1)
                           ELSE RDiv(RSub(sim.out[1].timestamp, segment.start_point.timestamp),
                                     Duration(segment)),
              point |-> sim.out[1].point]}
    ELSE IF PointsRead /\ sim.out[1].n >= 1
    THEN {[segment |-> sim.path[1].segments[k],
           progress |-> Rat(j, sim.out[1].n),
           point |-> sim.out[1].points[(k - 1) * (sim.out[1].n + 1) + j + 1]] :
             k \in DOMAIN sim.path[1].segments, j \in 0..sim.out[1].n}
    ELSE {}

InTurn(angle) == RLe(Num(0), angle) /\ RLt(angle, Num(360))

\* a difference of two angles of [0, 360) wrapped into (-180, 180]
WrapHalfOpen(d) ==
    IF RLt(Num(180), d) THEN RSub(d, Num(360))
    ELSE IF RLe(d, Num(-180)) THEN RAdd(d, Num(360))
    ELSE d

\* the same wrapped into [-180, 180], a difference of -180 or 180 being kept
WrapClosed(d) ==
    IF RLt(Num(180), d) THEN RSub(d, Num(360))
    ELSE IF RLt(d, Num(-180)) THEN RAdd(d, Num(360))
    ELSE d

\* C27 as stated: for start and end in [0, 360) and a progress p in [0, 1],
\* interpolate_angle(start, end, p) is normalize(start + d * p) with d the
\* difference end - start wrapped into (-180, 180], a difference of exactly
\* -180 being wrapped to +180.
C27_HalfOpenWrap ==
    \A o \in Observed :
        LET start == o.segment.start_point.angle
            end == o.segment.end_point.angle
        IN (InTurn(start) /\ InTurn(end))
               => o.point.angle
                      = normalize_angle(RAdd(start, RMul(WrapHalfOpen(RSub(end, start)),
                                                         o.progress)))

\* C27 amended: for start and end in [0, 360) and a progress p in [0, 1],
\* interpolate_angle(start, end, p) is normalize(start + d * p) with d the
\* difference end - start wrapped into [-180, 180]: a difference of exactly
\* -180 is kept, so the interpolation between opposite headings goes in the
\* negative direction when end is below start and in the positive direction
\* when end is above start.
C27_ClosedWrap ==
    \A o \in Observed :
        LET start == o.segment.start_point.angle
            end == o.segment.end_point.angle
        IN (InTurn(start) /\ InTurn(end))
               => /\ RLe(Num(0), o.progress) /\ RLe(o.progress, Num(1))
                  /\ o.point.angle
                         = normalize_angle(RAdd(start, RMul(WrapClosed(RSub(end, start)),
                                                            o.progress)))
                  /\ RSub(end, start) = Num(-180)
                         => o.point.angle = normalize_angle(RSub(start, RMul(Num(180), o.progress)))

\* a point read strictly inside a segment that turns from a heading to the
\* opposite one below it
C27_Witness ==
    \E o \in Observed :
        /\ InTurn(o.segment.start_point.angle)
        /\ InTurn(o.segment.end_point.angle)
        /\ RSub(o.segment.end_point.angle, o.segment.start_point.angle) = Num(-180)
        /\ RLt(Num(0), o.progress)
        /\ RLt(o.progress, Num(1))

\* C28: the heading previewed at progress p of a turn segment made from
\* robot.turn(a) at the start heading h is normalize(h + a * p): the previewed
\* robot turns in the commanded direction through the commanded angle, for
\* every a, half turns, larger turns and full turns included.
C28_TurnFollowsCommand ==
    \A o \in Observed :
        o.segment.type = "turn"
            => LET h == o.segment.start_point.angle
                   a == ToRat(float(TURN_PATTERN(o.segment.command)[1]))
               IN o.point.angle = normalize_angle(RAdd(h, RMul(a, o.progress)))

====
